---- MODULE Spec2Model ----
(***************************************************************************)
(* Range-reconciliation cache of weekly_prices.py: fetch_asset_history     *)
(* over the asset_prices table (PriceStore) and the yfinance provider      *)
(* (UpstreamProvider).                                                     *)
(*                                                                         *)
(* Dates are day numbers.  The table stores dates as "%Y-%m-%d" strings,   *)
(* whose lexicographic order (SQL BETWEEN / ORDER BY on TEXT) is the       *)
(* calendar order, so a stored date is modelled by its day number.         *)
(* A table row is a record [ticker, date, close, updated_at]; a row handed *)
(* back by a SELECT date, close is the pair <<date, close>>.               *)
(***************************************************************************)
EXTENDS Integers, Sequences, FiniteSets, TLC

\* ---------------------------------------------------------------- bounds
\* Days 1..MaxDay are the days on which upstream can have a close; the
\* clock (datetime.now().date()) stands at MaxDay.
MaxDay == 4
\* Largest trading-day count a request asks for.
MaxN == 2
\* Days per year of the model calendar: '%m-%d' keeps the day of the year
\* and drops the year.
YearLen == 3

\* Number of revisions upstream publishes of its closes.
MaxRev == 2
\* Number of times upsert_prices is applied to the same frame in SpecUpsert.
MaxTries == 2
MaxClicks == 2

Dates == 1..MaxDay
Today == MaxDay

\* ------------------------------------------------------- the asset registry
\* ASSETS: display name -> ticker, in insertion order.
ASSETS == [n \in {"n1", "n2"} |-> IF n = "n1" THEN "T1" ELSE "T2"]
Tickers == {ASSETS[n] : n \in DOMAIN ASSETS}

\* The asset maps a caller passes: ASSETS itself or ASSETS filtered by
\* ticker, which keeps the registry's order.
AssetMaps == {<<"n1">>, <<"n2">>, <<"n1", "n2">>}

\* A missing period tag.
None == "None"
\* A missing (None or empty) date argument; also the unset window of a
\* trading-day-count request.
NoDate == 0
\* change_pct = None
NoChange == <<>>
\* A date argument that is given but is not a "%Y-%m-%d" date.
BadDate == -1

VARIABLES
    store,        \* asset_prices: set of rows [ticker, date, close, updated_at]
    clock,        \* datetime.now(), in seconds
    market,       \* upstream: ticker -> the days it has a close on
    rev,          \* upstream: revision of its closes (1 as first published)
    pc,           \* position of the batch call: "idle", "asset", or
                  \* "raised" once an exception has left the call
    req,          \* arguments of the running (or last) batch call
    idx,          \* position in assets.items()
    cached_rows,  \* cached_rows of the last asset, as read before planning
    fetch_ranges, \* fetch_ranges of the last asset
    results,      \* the result rows appended, in order
    chart_data,   \* name -> closes
    chart_dates,  \* name -> '%m-%d' dates
    chart_changes,\* name -> change percent, or NoChange
    calls,        \* history: upstream calls of the running (or last) batch
    before,       \* history: the table when the last asset was entered
    outcome,      \* history: how each asset so far ended
    trial,        \* SpecUpsert: the table and the frame upsert_prices is tried on
    workers,      \* SpecConcurrent: the two overlapping calls
    http,         \* /api/prices: the query arguments and the answer's meta
    dash          \* the dashboard page: requests sent, cards, lastPayload

vars == <<store, market, rev, pc, req, idx, cached_rows, fetch_ranges,
          results, chart_data, chart_dates, chart_changes, calls, before,
          outcome, clock, trial, workers, http, dash>>

\* ------------------------------------------------------------ sequences
Min(S) == CHOOSE x \in S : \A y \in S : x <= y
Max(S) == CHOOSE x \in S : \A y \in S : x >= y

Range(s) == {s[i] : i \in 1..Len(s)}

Reverse(s) == [i \in 1..Len(s) |-> s[Len(s) + 1 - i]]

\* rows (pairs <<date, close>>) in ascending date order
RECURSIVE OrderByDateAsc(_)
OrderByDateAsc(rows) ==
    IF rows = {} THEN <<>>
    ELSE LET r == CHOOSE x \in rows : \A y \in rows : x[1] <= y[1]
         IN  <<r>> \o OrderByDateAsc(rows \ {r})

\* ------------------------------------------------------------ PriceStore
\* mutant: ORDER BY date DESC
fetch_cached_prices_newest_first(db, ticker, start_date, end_date) ==
    Reverse(OrderByDateAsc({<<r.date, r.close>> :
        r \in {x \in db : /\ x.ticker = ticker
                          /\ x.date >= start_date
                          /\ x.date <= end_date}}))

\* mutant: the read is not bounded by the window
fetch_cached_prices_unbounded(db, ticker, start_date, end_date) ==
    OrderByDateAsc({<<r.date, r.close>> :
        r \in {x \in db : x.ticker = ticker}})

\* SELECT date, close ... WHERE ticker = ? AND date BETWEEN ? AND ?
\* ORDER BY date ASC
fetch_cached_prices(db, ticker, start_date, end_date) ==
    OrderByDateAsc({<<r.date, r.close>> :
        r \in {x \in db : /\ x.ticker = ticker
                          /\ x.date >= start_date
                          /\ x.date <= end_date}})

\* mutant: ORDER BY date ASC LIMIT ?, the oldest rows
fetch_cached_last_n_oldest(db, ticker, limit_count) ==
    LET asc == OrderByDateAsc({<<r.date, r.close>> :
                    r \in {x \in db : x.ticker = ticker}})
        k   == IF Len(asc) < limit_count THEN Len(asc) ELSE limit_count
    IN  SubSeq(asc, 1, k)

\* mutant: the rows are handed back as selected, newest first
fetch_cached_last_n_newest_first(db, ticker, limit_count) ==
    LET desc == Reverse(OrderByDateAsc({<<r.date, r.close>> :
                    r \in {x \in db : x.ticker = ticker}}))
        k    == IF Len(desc) < limit_count THEN Len(desc) ELSE limit_count
    IN  SubSeq(desc, 1, k)

\* SELECT date, close ... WHERE ticker = ? ORDER BY date DESC LIMIT ?
\* and then list(reversed(rows))
fetch_cached_last_n(db, ticker, limit_count) ==
    LET desc == Reverse(OrderByDateAsc({<<r.date, r.close>> :
                    r \in {x \in db : x.ticker = ticker}}))
        k    == IF Len(desc) < limit_count THEN Len(desc) ELSE limit_count
    IN  Reverse(SubSeq(desc, 1, k))

\* mutant: the replace clears the ticker's other rows
InsertOrReplace_clearing_ticker(db, row) ==
    {x \in db : x.ticker # row.ticker} \cup {row}

\* mutant: a plain INSERT into a table without the primary key
InsertOrReplace_appending(db, row) == db \cup {row}

\* mutant: INSERT OR IGNORE, the row of an existing key is kept
InsertOrReplace_ignoring(db, row) ==
    IF \E x \in db : x.ticker = row.ticker /\ x.date = row.date
    THEN db ELSE db \cup {row}

\* INSERT OR REPLACE of one row under PRIMARY KEY (ticker, date)
InsertOrReplace(db, row) ==
    {x \in db : ~(x.ticker = row.ticker /\ x.date = row.date)} \cup {row}

RECURSIVE ExecuteMany(_, _)
ExecuteMany(db, rows) ==
    IF rows = <<>> THEN db
    ELSE ExecuteMany(InsertOrReplace(db, Head(rows)), Tail(rows))

\* mutant: the rows of the ticker are deleted before the frame is inserted
upsert_prices_replacing_ticker(db, ticker, hist_df) ==
    IF hist_df = <<>> THEN db
    ELSE ExecuteMany({x \in db : x.ticker # ticker},
             [i \in 1..Len(hist_df) |->
                 [ticker |-> ticker, date |-> hist_df[i][1],
                  close |-> hist_df[i][2], updated_at |-> clock]])

\* mutant: the close is stored cut to an even number
upsert_prices_truncating(db, ticker, hist_df) ==
    IF hist_df = <<>> THEN db
    ELSE ExecuteMany(db, [i \in 1..Len(hist_df) |->
             [ticker |-> ticker, date |-> hist_df[i][1],
              close |-> (hist_df[i][2] \div 2) * 2, updated_at |-> clock]])

\* hist_df is a sequence of <<date, close>>; one table row per frame row,
\* all stamped with the time of the call
upsert_prices(db, ticker, hist_df) ==
    IF hist_df = <<>> THEN db
    ELSE LET now_str == clock
         IN  ExecuteMany(db, [i \in 1..Len(hist_df) |->
                 [ticker |-> ticker, date |-> hist_df[i][1],
                  close |-> hist_df[i][2], updated_at |-> now_str]])

\* ------------------------------------------------------ UpstreamProvider
\* The price table of the end-to-end scenario, in tenths: closes of 10.0,
\* 10.5 and 9.8 on the 2nd, 3rd and 5th day of a week.
ScenarioDays == {2, 3, 5}
ScenarioClose(d) ==
    CASE d = 2 -> 100
      [] d = 3 -> 105
      [] d = 5 -> 98
      [] OTHER -> 0

\* The close upstream reports for a day at revision r; revision 0 is the
\* price table of the end-to-end scenario.
Close(ticker, d, r) == IF r = 0 THEN ScenarioClose(d) ELSE 10 * r + d

\* yfinance's "1mo": the trailing days that history(period="1mo") covers.
MonthDays == 30

\* mutant: the end day is part of the answer
history_range_end_inclusive(ticker, fetch_start, fetch_end) ==
    OrderByDateAsc({<<d, Close(ticker, d, rev)>> :
        d \in {x \in market[ticker] : x >= fetch_start /\ x <= fetch_end}})

\* stock.history(start=fetch_start, end=fetch_end): the closes of the days
\* in [fetch_start, fetch_end), end exclusive, oldest first.
history_range(ticker, fetch_start, fetch_end) ==
    OrderByDateAsc({<<d, Close(ticker, d, rev)>> :
        d \in {x \in market[ticker] : x >= fetch_start /\ x < fetch_end}})

\* stock.history(period="1mo"): the closes of the trailing month.
history_period(ticker) ==
    OrderByDateAsc({<<d, Close(ticker, d, rev)>> :
        d \in {x \in market[ticker] : x > Today - MonthDays /\ x <= Today}})

\* hist.sort_index()
sort_index(hist) == OrderByDateAsc(Range(hist))

\* hist.tail(n)
tail(hist, n) ==
    IF Len(hist) <= n THEN hist ELSE SubSeq(hist, Len(hist) - n + 1, Len(hist))

\* ---------------------------------------------------------- RangeResolver
PeriodTags == {"7d", "1mo", "3mo", "6mo", "1y"}

period_map(tag) ==
    CASE tag = "7d"  -> 7
      [] tag = "1mo" -> 30
      [] tag = "3mo" -> 90
      [] tag = "6mo" -> 180
      [] tag = "1y"  -> 365

\* mutant: a tag that is not in the map counts as a month
period_days_default_month(period) ==
    LET tag == IF period = None THEN "7d" ELSE period
    IN  IF tag \in PeriodTags THEN period_map(tag) ELSE 30

\* period_map.get(period or "7d", 7)
period_days(period) ==
    LET tag == IF period = None THEN "7d" ELSE period
    IN  IF tag \in PeriodTags THEN period_map(tag) ELSE 7

\* parse_date: strptime(date_str, "%Y-%m-%d") raises ValueError on a string
\* of another shape
parse_date_raises(date_str) == date_str = BadDate
parse_date(date_str) == date_str

\* mutant: only start is parsed
resolve_date_range_raises_on_start(period, start, end) ==
    /\ start # NoDate /\ end # NoDate
    /\ parse_date_raises(start)

\* resolve_date_range raises what parse_date raises, and parses only when
\* both start and end are given
resolve_date_range_raises(period, start, end) ==
    /\ start # NoDate /\ end # NoDate
    /\ parse_date_raises(start) \/ parse_date_raises(end)

\* resolve_date_range: <<start_date, end_date>>
resolve_date_range(period, start, end) ==
    IF start # NoDate /\ end # NoDate
    THEN <<parse_date(start), parse_date(end)>>
    ELSE <<Today - period_days(period), Today>>

\* ---------------------------------------------------------- GapReconciler
\* mutant: every range is kept
add_range_unchecked(ranges, range_start, range_end) ==
    Append(ranges, <<range_start, range_end>>)

\* add_range: a range that ends before it starts is dropped
add_range(ranges, range_start, range_end) ==
    IF range_start > range_end THEN ranges
    ELSE Append(ranges, <<range_start, range_end>>)

\* mutant: the day before end_date, without the max with start_date
refresh_start_without_max(start_date, end_date) == end_date - 1

\* refresh_start = max(start_date, end_date - timedelta(days=1))
refresh_start(start_date, end_date) ==
    IF start_date >= end_date - 1 THEN start_date ELSE end_date - 1

\* mutant: the whole window is planned first under every policy
plan_refresh_whole_window(start_date, end_date, force_refresh) ==
    add_range(<<>>, start_date, end_date)

\* the first range planned: the whole window under force_refresh, else the
\* most recent day(s)
plan_refresh(start_date, end_date, force_refresh) ==
    IF force_refresh
    THEN add_range(<<>>, start_date, end_date)
    ELSE add_range(<<>>, refresh_start(start_date, end_date), end_date)

\* mutant: the right gap is looked at only when there is no left gap
plan_gaps_elif(ranges, rows, start_date, end_date) ==
    IF rows = <<>>
    THEN add_range(ranges, start_date, end_date)
    ELSE LET cached_dates == {rows[i][1] : i \in 1..Len(rows)}
             cached_min   == Min(cached_dates)
             cached_max   == Max(cached_dates)
         IN  IF cached_min > start_date
             THEN add_range(ranges, start_date, cached_min - 1)
             ELSE IF cached_max < end_date
                  THEN add_range(ranges, cached_max + 1, end_date)
                  ELSE ranges

\* mutant: nothing more is planned when the window has no cached row
plan_gaps_skipping_empty(ranges, rows, start_date, end_date) ==
    IF rows = <<>>
    THEN ranges
    ELSE LET cached_dates == {rows[i][1] : i \in 1..Len(rows)}
             cached_min   == Min(cached_dates)
             cached_max   == Max(cached_dates)
             left  == IF cached_min > start_date
                      THEN add_range(ranges, start_date, cached_min - 1)
                      ELSE ranges
         IN  IF cached_max < end_date
             THEN add_range(left, cached_max + 1, end_date)
             ELSE left

\* the ranges planned from the cached rows of the window
plan_gaps(ranges, rows, start_date, end_date) ==
    IF rows = <<>>
    THEN add_range(ranges, start_date, end_date)
    ELSE LET cached_dates == {rows[i][1] : i \in 1..Len(rows)}
             cached_min   == Min(cached_dates)
             cached_max   == Max(cached_dates)
             left  == IF cached_min > start_date
                      THEN add_range(ranges, start_date, cached_min - 1)
                      ELSE ranges
         IN  IF cached_max < end_date
             THEN add_range(left, cached_max + 1, end_date)
             ELSE left

\* mutant: planning that does not look at stale_only
plan_fetch_ranges_ignoring_stale(rows, start_date, end_date, force_refresh, stale_only) ==
    plan_gaps(plan_refresh(start_date, end_date, force_refresh),
              rows, start_date, end_date)

\* fetch_ranges of one asset in calendar-window mode
plan_fetch_ranges(rows, start_date, end_date, force_refresh, stale_only) ==
    IF stale_only THEN <<>>
    ELSE plan_gaps(plan_refresh(start_date, end_date, force_refresh),
                   rows, start_date, end_date)

\* mutant: force_refresh is not looked at
needs_period_fetch_ignoring_force(rows, trading_days, force_refresh, stale_only) ==
    /\ ~stale_only
    /\ Len(rows) < trading_days

\* trading-day-count mode: whether upstream is asked for the trailing month
needs_period_fetch(rows, trading_days, force_refresh, stale_only) ==
    /\ ~stale_only
    /\ (force_refresh \/ Len(rows) < trading_days)

\* --------------------------------------------------------- SeriesAssembler
EmptyMap == [n \in {} |-> <<>>]

\* strftime('%m-%d') of a stored date: the day of the year, without the year
format_md(d) == d % YearLen

\* mutant: the change is taken relative to the last close
change_pct_over_last(close_values) ==
    IF Len(close_values) >= 2
    THEN <<(close_values[Len(close_values)] - close_values[1]) * 100,
           close_values[Len(close_values)]>>
    ELSE NoChange

\* change_pct = (end_price - start_price) / start_price * 100 as the exact
\* fraction <<numerator, denominator>>; NoChange below two points
change_pct(close_values) ==
    IF Len(close_values) >= 2
    THEN <<(close_values[Len(close_values)] - close_values[1]) * 100,
           close_values[1]>>
    ELSE NoChange

CalendarMode == req.trading_days = 0

\* mutant: the upserts of a pass are kept only when all its ranges were
\* fetched, as under one transaction per asset
fetch_all_or_nothing(db, ticker, ranges, n) ==
    IF n < Len(ranges) THEN db
    ELSE upsert_prices(db, ticker,
             OrderByDateAsc({<<d, Close(ticker, d, rev)>> :
                 d \in {x \in market[ticker] :
                     \E i \in 1..n : x >= ranges[i][1] /\ x <= ranges[i][2]}}))

\* the first n ranges of the loop "for range_start, range_end in
\* fetch_ranges": each is asked of upstream as [range_start, range_end + 1)
\* and a non-empty answer is sorted and upserted
RECURSIVE fetch_all(_, _, _, _)
fetch_all(db, ticker, ranges, n) ==
    IF n = 0 THEN db
    ELSE LET prev == fetch_all(db, ticker, ranges, n - 1)
             hist == history_range(ticker, ranges[n][1], ranges[n][2] + 1)
         IN  IF hist # <<>>
             THEN upsert_prices(prev, ticker, sort_index(hist))
             ELSE prev

\* the upstream call made for range i
range_call(ticker, ranges, i, raised) ==
    [ticker |-> ticker, start |-> ranges[i][1], end |-> ranges[i][2] + 1,
     raised |-> raised,
     rows |-> IF raised THEN {}
              ELSE Range(history_range(ticker, ranges[i][1], ranges[i][2] + 1))]

\* the upstream call history(period="1mo")
period_call(ticker, raised) ==
    [ticker |-> ticker, start |-> NoDate, end |-> NoDate, raised |-> raised,
     rows |-> IF raised THEN {} ELSE Range(history_period(ticker))]

\* trading-day-count mode: a non-empty answer is sorted, cut to its last
\* trading_days rows and upserted
fetch_period(db, ticker, trading_days) ==
    LET hist == history_period(ticker)
    IN  IF hist # <<>>
        THEN upsert_prices(db, ticker, tail(sort_index(hist), trading_days))
        ELSE db

\* mutant: the output is built from the rows read before the fetches
final_rows_without_reread(db, rows, ticker, request) == rows

\* the rows an asset's output is built from: under stale_only the rows of
\* the one cache read, otherwise a fresh read of the table after the fetches
final_rows(db, rows, ticker, request) ==
    IF request.stale_only THEN rows
    ELSE IF request.trading_days = 0
         THEN fetch_cached_prices(db, ticker, request.start_date, request.end_date)
         ELSE fetch_cached_last_n(db, ticker, request.trading_days)

NoRequest ==
    [assets |-> <<>>, trading_days |-> 0, start_date |-> NoDate,
     end_date |-> NoDate, force_refresh |-> FALSE, stale_only |-> FALSE,
     explicit |-> FALSE, bad_dates |-> {}]

\* mutant: the window is resolved before the trading-day count is looked at
StartRequest_resolving_first(assets, trading_days, period, start, end, force_refresh, stale_only) ==
    LET given  == [explicit |-> start # NoDate /\ end # NoDate,
                   bad_dates |-> {a \in {"start", "end"} :
                       parse_date_raises(IF a = "start" THEN start ELSE end)}]
        raises == resolve_date_range_raises(period, start, end)
        unset  == [assets |-> assets, trading_days |-> trading_days,
                   start_date |-> NoDate, end_date |-> NoDate,
                   force_refresh |-> force_refresh, stale_only |-> stale_only]
    IN
    /\ pc \in {"idle", "raised"}
    /\ req' = IF raises
              THEN unset @@ given
              ELSE LET w == resolve_date_range(period, start, end)
                   IN  [unset EXCEPT !.start_date = w[1], !.end_date = w[2]]
                       @@ given
    /\ pc' = IF raises THEN "raised" ELSE "asset"
    /\ idx' = 1
    /\ cached_rows' = <<>>
    /\ fetch_ranges' = <<>>
    /\ results' = <<>>
    /\ chart_data' = EmptyMap
    /\ chart_dates' = EmptyMap
    /\ chart_changes' = EmptyMap
    /\ calls' = <<>>
    /\ before' = {}
    /\ outcome' = <<>>
    /\ UNCHANGED <<store, market, rev, clock, trial, workers, dash>>

\* fetch_asset_history is entered: results and charts start empty, and in
\* calendar-window mode the window is resolved once for the whole batch,
\* outside the try of the loop, so that a ValueError of parse_date leaves the
\* call.  trading_days = 0 stands for a missing (None) or zero count, both
\* falsy.  req keeps, next to the resolved arguments, whether start and end
\* were both given (explicit) and which of them do not parse (bad_dates).
StartRequest(assets, trading_days, period, start, end, force_refresh, stale_only) ==
    LET given  == [explicit |-> start # NoDate /\ end # NoDate,
                   bad_dates |-> {a \in {"start", "end"} :
                       parse_date_raises(IF a = "start" THEN start ELSE end)}]
        raises == trading_days = 0 /\ resolve_date_range_raises(period, start, end)
        unset  == [assets |-> assets, trading_days |-> trading_days,
                   start_date |-> NoDate, end_date |-> NoDate,
                   force_refresh |-> force_refresh, stale_only |-> stale_only]
    IN
    /\ pc \in {"idle", "raised"}
    /\ req' = IF trading_days # 0 \/ raises
              THEN unset @@ given
              ELSE LET w == resolve_date_range(period, start, end)
                   IN  [unset EXCEPT !.start_date = w[1], !.end_date = w[2]]
                       @@ given
    /\ pc' = IF raises THEN "raised" ELSE "asset"
    /\ idx' = 1
    /\ cached_rows' = <<>>
    /\ fetch_ranges' = <<>>
    /\ results' = <<>>
    /\ chart_data' = EmptyMap
    /\ chart_dates' = EmptyMap
    /\ chart_changes' = EmptyMap
    /\ calls' = <<>>
    /\ before' = {}
    /\ outcome' = <<>>
    /\ UNCHANGED <<store, market, rev, clock, trial, workers, dash>>

\* fetch_asset_history called on its own, not from /api/prices
DirectCall(assets, trading_days, period, start, end, force_refresh, stale_only) ==
    /\ StartRequest(assets, trading_days, period, start, end,
                    force_refresh, stale_only)
    /\ UNCHANGED http

\* mutant: an asset without rows is given a result row and empty charts
Emit_keeping_empty(name, ticker, rows) ==
    LET close_values == [i \in 1..Len(rows) |-> rows[i][2]]
        dates        == [i \in 1..Len(rows) |-> format_md(rows[i][1])]
    IN  /\ outcome' = Append(outcome, IF rows = <<>> THEN "dropped" ELSE "emitted")
        /\ results' = Append(results,
               [asset |-> name, ticker |-> ticker,
                current |-> IF rows = <<>> THEN 0
                            ELSE close_values[Len(close_values)]])
        /\ chart_data' = (name :> close_values) @@ chart_data
        /\ chart_dates' = (name :> dates) @@ chart_dates
        /\ chart_changes' = (name :> change_pct(close_values)) @@ chart_changes

\* mutant: the result row is put in front of the earlier ones
Emit_prepending(name, ticker, rows) ==
    LET close_values == [i \in 1..Len(rows) |-> rows[i][2]]
        dates        == [i \in 1..Len(rows) |-> format_md(rows[i][1])]
    IN  IF rows = <<>>
        THEN /\ outcome' = Append(outcome, "dropped")
             /\ UNCHANGED <<results, chart_data, chart_dates, chart_changes>>
        ELSE /\ outcome' = Append(outcome, "emitted")
             /\ results' = <<[asset |-> name, ticker |-> ticker,
                              current |-> close_values[Len(close_values)]]>>
                           \o results
             /\ chart_data' = (name :> close_values) @@ chart_data
             /\ chart_dates' = (name :> dates) @@ chart_dates
             /\ chart_changes' = (name :> change_pct(close_values)) @@ chart_changes

\* The tail of one loop pass: the result row and the chart entries of the
\* asset are built from rows; with no rows the asset is left out ("if not
\* cached_rows: continue"; under stale_only in calendar-window mode
\* close_values[-1] raises on the empty list and the except clause skips the
\* asset, to the same effect).
Emit(name, ticker, rows) ==
    LET close_values == [i \in 1..Len(rows) |-> rows[i][2]]
        dates        == [i \in 1..Len(rows) |-> format_md(rows[i][1])]
    IN  IF rows = <<>>
        THEN /\ outcome' = Append(outcome, "dropped")
             /\ UNCHANGED <<results, chart_data, chart_dates, chart_changes>>
        ELSE /\ outcome' = Append(outcome, "emitted")
             /\ results' = Append(results,
                    [asset |-> name, ticker |-> ticker,
                     current |-> close_values[Len(close_values)]])
             /\ chart_data' = (name :> close_values) @@ chart_data
             /\ chart_dates' = (name :> dates) @@ chart_dates
             /\ chart_changes' = (name :> change_pct(close_values)) @@ chart_changes

\* mutant: the exception of one asset discards what the earlier assets gave
Skip_discarding_earlier ==
    /\ outcome' = Append(outcome, "failed")
    /\ results' = <<>>
    /\ chart_data' = EmptyMap
    /\ chart_dates' = EmptyMap
    /\ chart_changes' = EmptyMap

\* "except Exception: ... continue": the asset is skipped
Skip ==
    /\ outcome' = Append(outcome, "failed")
    /\ UNCHANGED <<results, chart_data, chart_dates, chart_changes>>

\* One pass of the loop of calendar-window mode.  fail = 0: no upstream
\* call raises; fail = k: the k-th call raises, after k - 1 answered.
ProcessAssetWindow ==
    /\ pc = "asset"
    /\ idx <= Len(req.assets)
    /\ CalendarMode
    /\ LET name   == req.assets[idx]
           ticker == ASSETS[name]
           rows   == fetch_cached_prices(store, ticker, req.start_date, req.end_date)
           plan   == plan_fetch_ranges(rows, req.start_date, req.end_date,
                                       req.force_refresh, req.stale_only)
       IN  \E fail \in 0..Len(plan) :
              LET n_ok == IF fail = 0 THEN Len(plan) ELSE fail - 1
                  db   == fetch_all(store, ticker, plan, n_ok)
              IN  /\ cached_rows' = rows
                  /\ fetch_ranges' = plan
                  /\ store' = db
                  /\ calls' = calls
                        \o [i \in 1..n_ok |-> range_call(ticker, plan, i, FALSE)]
                        \o (IF fail = 0 THEN <<>>
                            ELSE <<range_call(ticker, plan, fail, TRUE)>>)
                  /\ IF fail = 0
                     THEN Emit(name, ticker, final_rows(db, rows, ticker, req))
                     ELSE Skip
    /\ before' = store
    /\ idx' = idx + 1
    /\ UNCHANGED <<market, rev, pc, req, clock, trial, workers, http, dash>>

\* One pass of the loop of trading-day-count mode.
ProcessAssetTradingDays ==
    /\ pc = "asset"
    /\ idx <= Len(req.assets)
    /\ ~CalendarMode
    /\ LET name   == req.assets[idx]
           ticker == ASSETS[name]
           rows   == fetch_cached_last_n(store, ticker, req.trading_days)
           fetch  == needs_period_fetch(rows, req.trading_days,
                                        req.force_refresh, req.stale_only)
       IN  \E raised \in BOOLEAN :
              LET db == IF fetch /\ ~raised
                        THEN fetch_period(store, ticker, req.trading_days)
                        ELSE store
              IN  /\ raised => fetch
                  /\ cached_rows' = rows
                  /\ store' = db
                  /\ calls' = IF fetch
                              THEN Append(calls, period_call(ticker, raised))
                              ELSE calls
                  /\ IF raised
                     THEN Skip
                     ELSE Emit(name, ticker, final_rows(db, rows, ticker, req))
    /\ fetch_ranges' = <<>>
    /\ before' = store
    /\ idx' = idx + 1
    /\ UNCHANGED <<market, rev, pc, req, clock, trial, workers, http, dash>>

\* One pass of either loop in which a call on the table raises
\* (sqlite3.Error): at "read" the first SELECT of the pass raises, before any
\* upstream call; at "reread" the upstream calls and upserts of the pass are
\* done and the SELECT after them raises.  The reads and the upserts stand
\* inside the try of the loop, so the except clause takes the exception and
\* the loop continues with the next asset.
StorageRaises ==
    /\ pc = "asset"
    /\ idx <= Len(req.assets)
    /\ LET name   == req.assets[idx]
           ticker == ASSETS[name]
           rows   == IF CalendarMode
                     THEN fetch_cached_prices(store, ticker,
                                              req.start_date, req.end_date)
                     ELSE fetch_cached_last_n(store, ticker, req.trading_days)
           plan   == IF CalendarMode
                     THEN plan_fetch_ranges(rows, req.start_date, req.end_date,
                                            req.force_refresh, req.stale_only)
                     ELSE <<>>
           fetch  == ~CalendarMode
                     /\ needs_period_fetch(rows, req.trading_days,
                                           req.force_refresh, req.stale_only)
       IN  \E at \in {"read", "reread"} :
              /\ at = "reread" => ~req.stale_only
              /\ cached_rows' = IF at = "read" THEN <<>> ELSE rows
              /\ fetch_ranges' = IF at = "read" THEN <<>> ELSE plan
              /\ store' = IF at = "read" THEN store
                          ELSE IF CalendarMode
                               THEN fetch_all(store, ticker, plan, Len(plan))
                               ELSE IF fetch
                                    THEN fetch_period(store, ticker, req.trading_days)
                                    ELSE store
              /\ calls' = IF at = "read" THEN calls
                          ELSE IF CalendarMode
                               THEN calls \o [i \in 1..Len(plan) |->
                                        range_call(ticker, plan, i, FALSE)]
                               ELSE IF fetch
                                    THEN Append(calls, period_call(ticker, FALSE))
                                    ELSE calls
    /\ outcome' = Append(outcome, "storage_failed")
    /\ before' = store
    /\ idx' = idx + 1
    /\ UNCHANGED <<results, chart_data, chart_dates, chart_changes,
                   market, rev, pc, req, clock, trial, workers, http, dash>>

\* "return results, chart_data, chart_dates, chart_changes"
ReturnResults ==
    /\ pc = "asset"
    /\ idx > Len(req.assets)
    /\ pc' = "idle"
    /\ UNCHANGED <<store, market, rev, req, idx, cached_rows, fetch_ranges,
                   results, chart_data, chart_dates, chart_changes, calls,
                   before, outcome, clock, trial, workers, http, dash>>

\* build_assets_payload: one entry per name of assets_map, in its order,
\* that has chart data, dates and closes
RECURSIVE build_assets_payload(_, _, _, _)
build_assets_payload(assets_map, data, dates_of, changes) ==
    IF assets_map = <<>> THEN <<>>
    ELSE LET name   == Head(assets_map)
             rest   == build_assets_payload(Tail(assets_map), data, dates_of, changes)
             dates  == IF name \in DOMAIN dates_of THEN dates_of[name] ELSE <<>>
             closes == IF name \in DOMAIN data THEN data[name] ELSE <<>>
         IN  IF name \notin DOMAIN data \/ dates = <<>> \/ closes = <<>>
             THEN rest
             ELSE <<[name |-> name, ticker |-> ASSETS[name], dates |-> dates,
                     close |-> closes, current |-> closes[Len(closes)],
                     change_pct |-> IF name \in DOMAIN changes
                                    THEN changes[name] ELSE NoChange]>> \o rest

\* no /api/prices request has been received
NoHttp == [phase |-> "none", stale |-> None, refresh |-> None,
           meta |-> [stale |-> FALSE, source |-> None]]

\* the page before any request: no cards, lastPayload = null
NoCards == [kind |-> "empty", of |-> 0]
NoDash == [sent |-> <<>>, cards |-> NoCards, lastPayload |-> 0, clicks |-> 0]

\* no batch call has run
InitCall ==
    /\ http = NoHttp
    /\ dash = NoDash
    /\ pc = "idle"
    /\ req = NoRequest
    /\ idx = 1
    /\ cached_rows = <<>>
    /\ fetch_ranges = <<>>
    /\ results = <<>>
    /\ chart_data = EmptyMap
    /\ chart_dates = EmptyMap
    /\ chart_changes = EmptyMap
    /\ calls = <<>>
    /\ before = {}
    /\ outcome = <<>>

\* the table is empty (init_db creates it), upstream is at its first
\* revision
InitRest ==
    /\ store = {}
    /\ rev = 1
    /\ clock = 0
    /\ trial = <<>>
    /\ workers = <<>>
    /\ InitCall

DateArgs == Dates \cup {NoDate}
PeriodArgs == {None, "1mo"}

\* ---- Spec: batches of the one asset n1, over every trading calendar and
\* every window
Init ==
    /\ \E days \in SUBSET Dates : market = [t \in Tickers |-> days]
    /\ InitRest

Next ==
    \/ \E period \in PeriodArgs, start \in DateArgs, end \in DateArgs,
          force_refresh \in BOOLEAN, stale_only \in BOOLEAN :
          DirectCall(<<"n1">>, 0, period, start, end, force_refresh, stale_only)
    \/ \E trading_days \in 1..MaxN, force_refresh \in BOOLEAN,
          stale_only \in BOOLEAN :
          DirectCall(<<"n1">>, trading_days, None, NoDate, NoDate,
                     force_refresh, stale_only)
    \/ ProcessAssetWindow
    \/ ProcessAssetTradingDays
    \/ ReturnResults

Spec == Init /\ [][Next]_vars

\* ---- SpecBatch: batches of one or both assets, over the windows that end
\* today.  n1 has no close on every third day, n2 has a close on every day.
Weekdays == {d \in Dates : d % 3 # 0}

InitBatch ==
    /\ market = [t \in Tickers |-> IF t = "T1" THEN Weekdays ELSE Dates]
    /\ InitRest

NextBatch ==
    \/ \E assets \in AssetMaps, start \in Dates,
          force_refresh \in BOOLEAN, stale_only \in BOOLEAN :
          DirectCall(assets, 0, None, start, Today, force_refresh, stale_only)
    \/ \E assets \in AssetMaps, trading_days \in 1..MaxN,
          force_refresh \in BOOLEAN, stale_only \in BOOLEAN :
          DirectCall(assets, trading_days, None, NoDate, NoDate,
                     force_refresh, stale_only)
    \/ ProcessAssetWindow
    \/ ProcessAssetTradingDays
    \/ ReturnResults

SpecBatch == InitBatch /\ [][NextBatch]_vars

\* ---- SpecFaults: the batches of SpecBatch, with passes in which the table
\* raises.
NextFaults ==
    \/ NextBatch
    \/ StorageRaises

SpecFaults == InitBatch /\ [][NextFaults]_vars

\* ---- SpecRevise: batches of n1 alone or of both assets, with an upstream
\* that republishes its closes under a new revision between or during
\* batches.  n1 has no close on every third day, n2 is listed today.
InitRevise ==
    /\ market = [t \in Tickers |-> IF t = "T1" THEN Weekdays ELSE {Today}]
    /\ InitRest

UpstreamRevise ==
    /\ rev < MaxRev
    /\ rev' = rev + 1
    /\ UNCHANGED <<store, market, pc, req, idx, cached_rows, fetch_ranges,
                   results, chart_data, chart_dates, chart_changes, calls,
                   before, outcome, clock, trial, workers, http, dash>>

NextRevise ==
    \/ \E assets \in {<<"n1">>, <<"n1", "n2">>}, start \in Dates,
          force_refresh \in BOOLEAN, stale_only \in BOOLEAN :
          DirectCall(assets, 0, None, start, Today, force_refresh, stale_only)
    \/ \E assets \in {<<"n1">>, <<"n1", "n2">>}, trading_days \in 1..MaxN,
          force_refresh \in BOOLEAN, stale_only \in BOOLEAN :
          DirectCall(assets, trading_days, None, NoDate, NoDate,
                     force_refresh, stale_only)
    \/ ProcessAssetWindow
    \/ ProcessAssetTradingDays
    \/ ReturnResults
    \/ UpstreamRevise

SpecRevise == InitRevise /\ [][NextRevise]_vars

\* ---- SpecConcurrent: two calls of fetch_asset_history for n1 over the same
\* calendar window run at once (one per server thread), each with its own
\* policy.  A call yields between its calls on the table and on upstream;
\* each SELECT and each upsert_prices (one sqlite3 transaction) is atomic.
\* Upstream answers without raising and keeps its closes, so both calls get
\* the same answer for the same range.
Callers == {1, 2}
ConcTicker == ASSETS["n1"]

\* the arguments of caller w
caller_request(w) ==
    [req EXCEPT !.force_refresh = workers[w].force_refresh,
                !.stale_only = workers[w].stale_only]

InitConcurrent ==
    /\ market = [t \in Tickers |-> IF t = "T1" THEN Weekdays ELSE Dates]
    /\ rev = 1
    /\ clock = 0
    /\ trial = <<>>
    /\ http = NoHttp
    /\ dash = NoDash
    /\ pc = "idle"
    /\ idx = 1
    /\ cached_rows = <<>>
    /\ fetch_ranges = <<>>
    /\ results = <<>>
    /\ chart_data = EmptyMap
    /\ chart_dates = EmptyMap
    /\ chart_changes = EmptyMap
    /\ calls = <<>>
    /\ outcome = <<>>
    /\ \E days \in SUBSET market[ConcTicker] :
          store = {[ticker |-> ConcTicker, date |-> d,
                    close |-> Close(ConcTicker, d, rev), updated_at |-> clock] :
                   d \in days}
    /\ before = store
    /\ \E start \in Dates, end \in Dates :
          req = [NoRequest EXCEPT !.assets = <<"n1">>, !.start_date = start,
                                  !.end_date = end, !.explicit = TRUE]
    /\ \E force \in [Callers -> BOOLEAN], stale \in [Callers -> BOOLEAN] :
          workers = [w \in Callers |->
              [pc |-> "read", force_refresh |-> force[w], stale_only |-> stale[w],
               rows |-> <<>>, plan |-> <<>>, ri |-> 1, hist |-> <<>>,
               series |-> <<>>, seen |-> {}]]

ConcFrame == <<market, rev, pc, req, idx, cached_rows, fetch_ranges, results,
               chart_data, chart_dates, chart_changes, calls, before, outcome,
               clock, trial, http, dash>>

\* the cache read and the planning that follows it; under stale_only the
\* rows of this read are the series
ConcRead(w) ==
    /\ workers[w].pc = "read"
    /\ LET me   == workers[w]
           rows == fetch_cached_prices(store, ConcTicker, req.start_date, req.end_date)
           plan == plan_fetch_ranges(rows, req.start_date, req.end_date,
                                     me.force_refresh, me.stale_only)
       IN  workers' = [workers EXCEPT ![w] =
               [me EXCEPT !.rows = rows, !.plan = plan, !.seen = store,
                          !.series = IF me.stale_only THEN rows ELSE <<>>,
                          !.pc = IF me.stale_only THEN "done"
                                 ELSE IF plan = <<>> THEN "reread" ELSE "call"]]
    /\ UNCHANGED store
    /\ UNCHANGED ConcFrame

\* stock.history(start=fetch_start, end=fetch_end) for the next range
ConcCall(w) ==
    /\ workers[w].pc = "call"
    /\ LET me == workers[w]
       IN  workers' = [workers EXCEPT ![w] =
               [me EXCEPT !.hist = history_range(ConcTicker, me.plan[me.ri][1],
                                                 me.plan[me.ri][2] + 1),
                          !.pc = "upsert"]]
    /\ UNCHANGED store
    /\ UNCHANGED ConcFrame

\* mutant: the frame is written onto the table as the caller read it
upserted_onto_snapshot(db, w) ==
    upsert_prices(workers[w].seen, ConcTicker, sort_index(workers[w].hist))

\* the table after caller w's upsert of the frame in hand
upserted(db, w) ==
    upsert_prices(db, ConcTicker, sort_index(workers[w].hist))

\* "if not hist.empty: upsert_prices(...)", then on to the next range
ConcUpsert(w) ==
    /\ workers[w].pc = "upsert"
    /\ LET me == workers[w]
       IN  /\ store' = IF me.hist # <<>> THEN upserted(store, w) ELSE store
           /\ workers' = [workers EXCEPT ![w] =
                  [me EXCEPT !.hist = <<>>, !.ri = me.ri + 1,
                             !.pc = IF me.ri = Len(me.plan) THEN "reread"
                                    ELSE "call"]]
    /\ UNCHANGED ConcFrame

\* the read after the fetches, from which the series is built
ConcReread(w) ==
    /\ workers[w].pc = "reread"
    /\ LET me == workers[w]
       IN  workers' = [workers EXCEPT ![w] =
               [me EXCEPT !.series = final_rows(store, me.rows, ConcTicker,
                                                caller_request(w)),
                          !.seen = store,
                          !.pc = "done"]]
    /\ UNCHANGED store
    /\ UNCHANGED ConcFrame

NextConcurrent ==
    \/ \E w \in Callers : ConcRead(w)
    \/ \E w \in Callers : ConcCall(w)
    \/ \E w \in Callers : ConcUpsert(w)
    \/ \E w \in Callers : ConcReread(w)

SpecConcurrent == InitConcurrent /\ [][NextConcurrent]_vars

\* ---- SpecScenario: the end-to-end scenario.  The table starts empty,
\* upstream holds the scenario's three closes within a week, and n1 is asked
\* for over windows within that week.
ScenarioWeek == 1..7

InitScenario ==
    /\ market = [t \in Tickers |-> ScenarioDays]
    /\ store = {}
    /\ rev = 0
    /\ clock = 0
    /\ trial = <<>>
    /\ workers = <<>>
    /\ InitCall

NextScenario ==
    \/ \E start \in ScenarioWeek, end \in {5, 7},
          force_refresh \in BOOLEAN, stale_only \in BOOLEAN :
          DirectCall(<<"n1">>, 0, None, start, end, force_refresh, stale_only)
    \/ ProcessAssetWindow
    \/ ReturnResults

SpecScenario == InitScenario /\ [][NextScenario]_vars

\* ---- SpecOrder: batches of both assets, passed in either order.
NextOrder ==
    \/ \E assets \in {<<"n1", "n2">>, <<"n2", "n1">>}, start \in Dates,
          force_refresh \in BOOLEAN, stale_only \in BOOLEAN :
          DirectCall(assets, 0, None, start, Today, force_refresh, stale_only)
    \/ \E assets \in {<<"n1", "n2">>, <<"n2", "n1">>}, trading_days \in 1..MaxN,
          force_refresh \in BOOLEAN, stale_only \in BOOLEAN :
          DirectCall(assets, trading_days, None, NoDate, NoDate,
                     force_refresh, stale_only)
    \/ ProcessAssetWindow
    \/ ProcessAssetTradingDays
    \/ ReturnResults

SpecOrder == InitBatch /\ [][NextOrder]_vars

\* ---- SpecResolve: resolve_date_range applied to every period tag of the
\* map, a missing tag and a tag that is not in the map, with start and end
\* each missing, malformed or a date.
ResolvePeriods == PeriodTags \cup {None, "2w"}
ResolveDates == Dates \cup {NoDate, BadDate}

InitResolve ==
    /\ market = [t \in Tickers |-> Dates]
    /\ store = {}
    /\ rev = 1
    /\ clock = 0
    /\ workers = <<>>
    /\ InitCall
    /\ \E period \in ResolvePeriods, start \in ResolveDates, end \in ResolveDates :
          trial = [period |-> period, start |-> start, end |-> end,
                   state |-> "called", window |-> <<NoDate, NoDate>>]

\* resolve_date_range(period, start, end) returns or raises
ResolveReturns ==
    /\ trial.state = "called"
    /\ trial' = IF resolve_date_range_raises(trial.period, trial.start, trial.end)
                THEN [trial EXCEPT !.state = "raised"]
                ELSE [trial EXCEPT !.state = "returned",
                        !.window = resolve_date_range(trial.period, trial.start,
                                                      trial.end)]
    /\ UNCHANGED <<store, market, rev, pc, req, idx, cached_rows, fetch_ranges,
                   results, chart_data, chart_dates, chart_changes, calls,
                   before, outcome, clock, workers, http, dash>>

NextResolve == ResolveReturns

SpecResolve == InitResolve /\ [][NextResolve]_vars

\* ---- SpecUpsert: upsert_prices applied again and again to one frame, from
\* every table over two tickers and two days and every frame over those
\* days, with the clock advancing or not between the calls.
TrialDays == {1, 2}

\* the frames of a ticker: at most one row per day, in any order
TrialFrames(ticker) ==
    LET pts == {<<d, Close(ticker, d, r)>> : d \in TrialDays, r \in 1..MaxRev}
    IN  {<<>>} \cup {<<p>> : p \in pts}
               \cup {<<pq[1], pq[2]>> :
                        pq \in {x \in pts \X pts : x[1][1] # x[2][1]}}

\* the tables: per (ticker, day) no row, or a row written at time 0 with
\* the close of some revision
TrialTables ==
    {{[ticker |-> k[1], date |-> k[2], close |-> Close(k[1], k[2], held[k]),
       updated_at |-> 0] : k \in {x \in DOMAIN held : held[x] # 0}} :
        held \in [Tickers \X TrialDays -> 0..MaxRev]}

InitUpsert ==
    /\ market = [t \in Tickers |-> TrialDays]
    /\ rev = 1
    /\ clock = 1
    /\ store \in TrialTables
    /\ \E ticker \in Tickers : \E hist \in TrialFrames(ticker) :
          trial = [db0 |-> store, ticker |-> ticker, hist |-> hist, n |-> 0,
                   once |-> store, first_at |-> 0, last_at |-> 0]
    /\ workers = <<>>
    /\ InitCall

\* upsert_prices(ticker, hist_df, db_path) is called
TryUpsert ==
    /\ trial.n < MaxTries
    /\ store' = upsert_prices(store, trial.ticker, trial.hist)
    /\ trial' = [trial EXCEPT !.n = @ + 1,
                              !.once = IF trial.n = 0 THEN store' ELSE @,
                              !.first_at = IF trial.n = 0 THEN clock ELSE @,
                              !.last_at = clock]
    /\ UNCHANGED <<market, rev, pc, req, idx, cached_rows, fetch_ranges,
                   results, chart_data, chart_dates, chart_changes, calls,
                   before, outcome, clock, workers, http, dash>>

\* a second passes
Tick ==
    /\ clock <= MaxTries
    /\ clock' = clock + 1
    /\ UNCHANGED <<store, market, rev, pc, req, idx, cached_rows, fetch_ranges,
                   results, chart_data, chart_dates, chart_changes, calls,
                   before, outcome, trial, workers, http, dash>>

NextUpsert ==
    \/ TryUpsert
    \/ Tick

SpecUpsert == InitUpsert /\ [][NextUpsert]_vars

\* ---- SpecArgs: batches of n1 whose start and end arguments are missing,
\* malformed or dates, with and without a trading-day count.
RawDateArgs == {NoDate, BadDate, Today - 1, Today}

NextArgs ==
    \/ \E trading_days \in 0..MaxN, period \in PeriodArgs,
          start \in RawDateArgs, end \in RawDateArgs,
          force_refresh \in BOOLEAN, stale_only \in BOOLEAN :
          DirectCall(<<"n1">>, trading_days, period, start, end,
                     force_refresh, stale_only)
    \/ ProcessAssetWindow
    \/ ProcessAssetTradingDays
    \/ ReturnResults

SpecArgs == InitBatch /\ [][NextArgs]_vars

\* ================================================================ claims
Live == ~req.force_refresh /\ ~req.stale_only
ForceRefresh == req.force_refresh /\ ~req.stale_only
StaleOnly == req.stale_only

\* the stored dates of a ticker in a table
StoredDates(db, ticker) == {r.date : r \in {x \in db : x.ticker = ticker}}

\* the close stored for a ticker and date
StoredClose(db, ticker, d) ==
    (CHOOSE r \in db : r.ticker = ticker /\ r.date = d).close

\* a set of days as an ascending sequence
RECURSIVE Ascending(_)
Ascending(days) ==
    IF days = {} THEN <<>>
    ELSE <<Min(days)>> \o Ascending(days \ {Min(days)})

\* the asset whose loop pass ended last, and its ticker
LastName == req.assets[idx - 1]
LastTicker == ASSETS[LastName]
Processed == idx > 1
LastOutcome == outcome[Len(outcome)]

\* C1: under stale_only, in calendar-window mode and in trading-day-count
\* mode alike and whatever the table holds, a batch makes no upstream call.
C1_StaleOnlyNoUpstream ==
    StaleOnly => calls = <<>>

\* C1 witness: a stale_only batch of both assets has ended, one asset served
\* from the table and one left out because the table has nothing for it.
C1_Witness ==
    /\ StaleOnly
    /\ pc = "idle"
    /\ Len(req.assets) = 2
    /\ outcome = <<"emitted", "dropped">>
    /\ calls = <<>>

\* the days a read for the request returns for a ticker: the stored days of
\* the window, or the trading_days latest stored days
ReadDays(db, ticker) ==
    LET days == StoredDates(db, ticker)
    IN  IF CalendarMode
        THEN {d \in days : d >= req.start_date /\ d <= req.end_date}
        ELSE {d \in days : Cardinality({e \in days : e > d}) < req.trading_days}

\* C2: the closes and dates emitted for an asset are those of a read of the
\* table for the request (the window scan, or the last trading_days rows)
\* taken after the asset's upserts, oldest first; what upstream returned
\* reaches the output only through the table.
C2_EmittedIsStoreRead ==
    \A n \in DOMAIN chart_data :
        LET days == Ascending(ReadDays(store, ASSETS[n]))
        IN  /\ chart_data[n] =
                  [i \in 1..Len(days) |-> StoredClose(store, ASSETS[n], days[i])]
            /\ chart_dates[n] = [i \in 1..Len(days) |-> format_md(days[i])]

\* C2 witness: both assets of a batch are emitted after upstream answered
\* with rows, and the table held rows of the window beforehand.
C2_Witness ==
    /\ pc = "idle"
    /\ ~StaleOnly
    /\ DOMAIN chart_data = {"n1", "n2"}
    /\ cached_rows # <<>>
    /\ \E i \in 1..Len(calls) : calls[i].rows # {}

\* the window of the request, its most-recent-day sub-window, and the days
\* of the window on which upstream has a close for a ticker
WindowOk == req.start_date <= req.end_date
InWindow(d) == d >= req.start_date /\ d <= req.end_date
RecentWindow ==
    <<IF req.start_date > req.end_date - 1 THEN req.start_date
      ELSE req.end_date - 1,
      req.end_date>>
UpstreamDays(ticker) == {d \in market[ticker] : InWindow(d)}

\* C3 (as claimed): under force_refresh in calendar-window mode the fetch
\* list of an asset is the one sub-window [start, end], whatever the table
\* holds.
C3_ForceRefreshSingleWindow ==
    (CalendarMode /\ ForceRefresh /\ Processed /\ WindowOk)
        => fetch_ranges = << <<req.start_date, req.end_date>> >>

\* C4 (as claimed): after an asset went through a Live or force_refresh
\* calendar-window request with no failure, the table holds every day of
\* the window on which upstream has a close.
C4_CacheComplete ==
    (CalendarMode /\ ~StaleOnly /\ Processed /\ LastOutcome # "failed")
        => UpstreamDays(LastTicker) \subseteq StoredDates(store, LastTicker)

\* C5, first half: every day upstream returned in a call of a calendar-window
\* request is a stored day of that ticker.
C5_ReturnedStored ==
    CalendarMode =>
        \A i \in 1..Len(calls) : \A row \in calls[i].rows :
            row[1] \in StoredDates(store, calls[i].ticker)

StoredKeys(db) == {<<r.ticker, r.date>> : r \in db}

\* C5, second half: no step removes a stored (ticker, date).
C5_NothingRemoved ==
    [][StoredKeys(store) \subseteq StoredKeys(store')]_vars

\* C5: reconciling one window and then another leaves every day upstream
\* returned for either in the table; reconciling takes no stored point away.
C5_MonotoneCoverage ==
    []C5_ReturnedStored /\ C5_NothingRemoved

\* C5 witness: a window was reconciled on a table that already held days
\* outside it (left by an earlier request); upstream returned rows and the
\* table grew.
C5_Witness ==
    /\ CalendarMode /\ ~StaleOnly /\ Processed
    /\ LastOutcome = "emitted"
    /\ \E d \in StoredDates(before, LastTicker) : ~InWindow(d)
    /\ \E i \in 1..Len(calls) : calls[i].rows # {}
    /\ StoredKeys(before) # StoredKeys(store)
    /\ StoredKeys(before) \subseteq StoredKeys(store)

\* C6 (as claimed): under Live, when the table already holds every day of
\* the window on which upstream has a close, only the most-recent-day
\* sub-window is planned.
C6_MinimalRefetch ==
    (/\ CalendarMode /\ Live /\ Processed /\ WindowOk
     /\ UpstreamDays(LastTicker) \subseteq StoredDates(before, LastTicker))
        => fetch_ranges = <<RecentWindow>>

\* the plan the gap rule gives for cache extents taken over days: the
\* most-recent-day sub-window, the left gap when the minimum is after start,
\* the right gap when the maximum is before end
GapRulePlan(days) ==
    <<RecentWindow>>
    \o (IF Min(days) > req.start_date
        THEN << <<req.start_date, Min(days) - 1>> >> ELSE <<>>)
    \o (IF Max(days) < req.end_date
        THEN << <<Max(days) + 1, req.end_date>> >> ELSE <<>>)

\* C7 (as claimed): the gap rule with the extents taken over every stored
\* day of the ticker.
C7_GapsFromStoreExtent ==
    (/\ CalendarMode /\ Live /\ Processed /\ WindowOk
     /\ StoredDates(before, LastTicker) # {})
        => fetch_ranges = GapRulePlan(StoredDates(before, LastTicker))

\* the stored days of the last asset's ticker that lay in the window when
\* the asset was entered
CachedInWindow == {d \in StoredDates(before, LastTicker) : InWindow(d)}

\* C7 (amended): under Live with at least one stored day in the window, the
\* left gap [start, min-1] is planned exactly when min > start and the right
\* gap [max+1, end] exactly when max < end, min and max being taken over the
\* stored days of the ticker that lie in [start, end]; the two checks are
\* independent.
C7_GapsFromWindowExtent ==
    (CalendarMode /\ Live /\ Processed /\ CachedInWindow # {})
        => fetch_ranges = GapRulePlan(CachedInWindow)

\* C7 witness: both gaps were planned, and the table also held a day before
\* the window.
C7_Witness ==
    /\ CalendarMode /\ Live /\ Processed
    /\ CachedInWindow # {}
    /\ Len(fetch_ranges) = 3
    /\ \E d \in StoredDates(before, LastTicker) : d < req.start_date

\* C8: under Live with start <= end the fetch list starts with the
\* sub-window [max(start, end - 1), end], whatever the table holds; the gap
\* sub-windows come after it.
C8_RecentWindowPlanned ==
    (CalendarMode /\ Live /\ Processed /\ WindowOk)
        => /\ fetch_ranges # <<>>
           /\ fetch_ranges[1] = RecentWindow

\* C8 witness: a one-day window whose day is cached, and a longer window
\* with a gap planned after the recent sub-window, are both reachable; this
\* is the second.
C8_Witness ==
    /\ CalendarMode /\ Live /\ Processed
    /\ req.start_date < req.end_date - 1
    /\ CachedInWindow # {}
    /\ Len(fetch_ranges) >= 2
    /\ fetch_ranges[1] = RecentWindow

\* C9 (as claimed): when an asset's pass ends without failure, every day
\* upstream returned in a call of the batch is a stored day of that ticker,
\* in either mode.
C9_EveryFetchedPointStored ==
    (Processed /\ LastOutcome # "failed")
        => \A i \in 1..Len(calls) : \A row \in calls[i].rows :
               row[1] \in StoredDates(store, calls[i].ticker)

\* C10: a trading-day-count request for N that ends without failure emits
\* the N latest stored rows of the ticker, oldest first and ending with the
\* latest stored day; with fewer than N stored rows it emits them all, and
\* with none the asset is left out.
C10_LastNRows ==
    (~CalendarMode /\ Processed /\ LastOutcome # "failed")
        => LET days   == StoredDates(store, LastTicker)
               latest == Ascending(ReadDays(store, LastTicker))
               count  == IF Cardinality(days) < req.trading_days
                         THEN Cardinality(days) ELSE req.trading_days
           IN  IF days = {}
               THEN LastName \notin DOMAIN chart_data
               ELSE /\ LastName \in DOMAIN chart_data
                    /\ Len(chart_data[LastName]) = count
                    /\ Len(chart_dates[LastName]) = count
                    /\ \A i \in 1..count :
                          /\ chart_data[LastName][i] =
                                StoredClose(store, LastTicker, latest[i])
                          /\ chart_dates[LastName][i] = format_md(latest[i])
                    /\ \A i \in 1..(count - 1) : latest[i] < latest[i + 1]
                    /\ latest[count] = Max(days)
                    /\ results[Len(results)].current =
                          StoredClose(store, LastTicker, Max(days))

\* C10 witness: the table holds more than N = 2 rows of the ticker and
\* exactly two are emitted.
C10_Witness ==
    /\ ~CalendarMode /\ Processed /\ LastOutcome = "emitted"
    /\ req.trading_days = 2
    /\ Cardinality(StoredDates(store, LastTicker)) > 2
    /\ Len(chart_data[LastName]) = 2

\* the upstream calls of the batch made for a ticker
CallsFor(ticker) == {i \in 1..Len(calls) : calls[i].ticker = ticker}

\* C11: in trading-day-count mode without stale_only, the pass of an asset
\* calls upstream exactly once (for the trailing month) when force_refresh is
\* set or the table held fewer than trading_days rows of the ticker, and not
\* at all otherwise; an asset that is emitted after a call carries the last
\* trading_days rows of the table as it is after that call.
C11_OneCallWhenShortOrForced ==
    (Processed /\ ~CalendarMode /\ ~StaleOnly) =>
        /\ Cardinality(CallsFor(LastTicker)) =
              (IF req.force_refresh
                  \/ Cardinality(StoredDates(before, LastTicker)) < req.trading_days
               THEN 1 ELSE 0)
        /\ \A i \in CallsFor(LastTicker) :
              calls[i].start = NoDate /\ calls[i].end = NoDate
        /\ (LastOutcome = "emitted" /\ CallsFor(LastTicker) # {}) =>
              chart_data[LastName] =
                  [i \in 1..Len(Ascending(ReadDays(store, LastTicker))) |->
                      StoredClose(store, LastTicker,
                                  Ascending(ReadDays(store, LastTicker))[i])]

\* C11 witness: force_refresh is set while the table already holds
\* trading_days rows of the ticker; the one call was made and answered, and
\* the asset is emitted.
C11_Witness ==
    /\ Processed /\ ~CalendarMode /\ ForceRefresh
    /\ Cardinality(StoredDates(before, LastTicker)) >= req.trading_days
    /\ Cardinality(CallsFor(LastTicker)) = 1
    /\ LastOutcome = "emitted"

\* the names that have a result row
ResultNames == {results[i].asset : i \in 1..Len(results)}

\* C12: in a batch whose window resolves, an asset whose upstream call
\* raises is left out of the results and the charts while every asset whose
\* pass succeeded with rows is in them; a failed pass moves on to the next
\* asset, the batch returns only after every asset has had its pass, and no
\* exception leaves the call.
C12_PartialFailureIsolated ==
    /\ pc # "raised"
    /\ Len(outcome) = idx - 1
    /\ (pc = "idle" /\ req # NoRequest) => Len(outcome) = Len(req.assets)
    /\ \A i \in 1..Len(outcome) :
          LET name == req.assets[i]
          IN  /\ outcome[i] = "failed" =>
                    /\ name \notin ResultNames
                    /\ name \notin DOMAIN chart_data
                    /\ \E c \in CallsFor(ASSETS[name]) : calls[c].raised
              /\ outcome[i] = "emitted" =>
                    /\ name \in ResultNames
                    /\ name \in DOMAIN chart_data

\* C12 witness: a batch of n1 then n2 has returned; upstream raised for n1
\* and n2, processed after it, is in the results.
C12_Witness ==
    /\ pc = "idle"
    /\ req.assets = <<"n1", "n2">>
    /\ outcome = <<"failed", "emitted">>
    /\ ResultNames = {"n2"}

\* C13: once a call on the table has raised in the pass of an asset, the
\* batch call is over: it is left by the exception, with no further asset
\* processed and no result set returned.
C13_StorageFailureIsFatal ==
    \A i \in 1..Len(outcome) :
        outcome[i] = "storage_failed" => (pc = "raised" /\ Len(outcome) = i)

\* C14 as claimed: whenever a given start or end does not parse, the call is
\* left by the exception of the window resolution, with no upstream call made
\* and no pass of the loop (hence no upsert) run.
C14_AnyBadDateRaises ==
    req.bad_dates # {} =>
        (pc = "raised" /\ calls = <<>> /\ outcome = <<>>)

\* C14: in calendar-window mode with start and end both given, the call is
\* left by the exception of the window resolution exactly when one of them
\* does not parse, and then no upstream call is made and no pass of the loop
\* (hence no upsert) runs; a malformed date given alone, or beside a
\* trading-day count, is never parsed.
C14_BadExplicitDateRaises ==
    /\ pc = "raised" <=>
          (req.trading_days = 0 /\ req.explicit /\ req.bad_dates # {})
    /\ pc = "raised" => (calls = <<>> /\ outcome = <<>> /\ idx = 1)

\* C14 witness: after an earlier batch filled the table, a call with a
\* malformed start and a well-formed end has been left by the exception.
C14_Witness ==
    /\ pc = "raised"
    /\ req.explicit
    /\ req.bad_dates = {"start"}
    /\ store # {}
    /\ calls = <<>>

\* the payload built from the charts as they stand
Payload == build_assets_payload(req.assets, chart_data, chart_dates, chart_changes)
PayloadNames == {Payload[i].name : i \in 1..Len(Payload)}

\* C15: in calendar-window mode and in trading-day-count mode, under
\* stale_only as without it, an asset for which the read of the table for the
\* request gives no row after its pass has no result row, no chart and no
\* payload entry; its pass is followed by the passes of the later assets, the
\* batch returning only after all of them.
C15_EmptyReadAbsent ==
    /\ pc # "raised"
    /\ (pc = "idle" /\ req # NoRequest) => Len(outcome) = Len(req.assets)
    /\ \A i \in 1..Len(outcome) :
          LET name == req.assets[i]
          IN  ReadDays(store, ASSETS[name]) = {} =>
                 /\ outcome[i] # "emitted"
                 /\ name \notin ResultNames
                 /\ name \notin DOMAIN chart_data
                 /\ name \notin PayloadNames

\* C15 witness: a stale_only calendar-window batch of n1 then n2 has
\* returned; the table has no row of n1 in the window, n1 is left out and n2,
\* processed after it, is in the payload.
C15_Witness ==
    /\ StaleOnly /\ CalendarMode
    /\ pc = "idle"
    /\ req.assets = <<"n1", "n2">>
    /\ ReadDays(store, "T1") = {}
    /\ outcome = <<"dropped", "emitted">>
    /\ PayloadNames = {"n2"}

\* the (ticker, date, close) content of a table
Content(db) == {<<r.ticker, r.date, r.close>> : r \in db}

\* a table after one upsert of a frame at a time: the rows of the frame's
\* keys are those of the frame, stamped with that time, the others are kept
UpsertedOnce(db, ticker, hist, at) ==
    {r \in db : ~(r.ticker = ticker
                  /\ r.date \in {hist[i][1] : i \in 1..Len(hist)})}
    \cup {[ticker |-> ticker, date |-> hist[i][1], close |-> hist[i][2],
           updated_at |-> at] : i \in 1..Len(hist)}

\* C16: for every table and every frame of (date, close) points of a ticker,
\* upserting the frame a second time leaves the table as one upsert leaves
\* it: the same (ticker, date, close) content as after the first upsert, the
\* very same rows when the clock has not advanced in between, and in any case
\* the table that a single upsert made at the time of the last one gives.
C16_UpsertIdempotent ==
    trial.n >= 2 =>
        /\ Content(store) = Content(trial.once)
        /\ trial.last_at = trial.first_at => store = trial.once
        /\ store = UpsertedOnce(trial.db0, trial.ticker, trial.hist, trial.last_at)

\* C16 witness: a frame of two days was upserted twice, a second apart, into
\* a table that held another close for one of its days and a row of the
\* other ticker.
C16_Witness ==
    /\ trial.n = 2
    /\ Len(trial.hist) = 2
    /\ trial.last_at > trial.first_at
    /\ Content(trial.db0) \ Content(store) # {}
    /\ \E r \in store : r.ticker # trial.ticker

\* the upstream calls made in a step
NewCalls ==
    IF Len(calls') >= Len(calls)
    THEN {calls'[i] : i \in (Len(calls) + 1)..Len(calls')}
    ELSE {}

\* the points of an upstream call that are upserted: all of them in
\* calendar-window mode, the trading_days latest in trading-day-count mode
UpsertedOf(c) ==
    IF c.start # NoDate THEN c.rows
    ELSE {p \in c.rows :
            Cardinality({q \in c.rows : q[1] > p[1]}) < req.trading_days}

\* the (ticker, date, close) points upserted in a step
UpsertedPoints ==
    UNION {{<<c.ticker, p[1], p[2]>> : p \in UpsertedOf(c)} : c \in NewCalls}

\* at most one row per (ticker, date)
C17_OneRowPerKey ==
    \A r1 \in store : \A r2 \in store :
        (r1.ticker = r2.ticker /\ r1.date = r2.date) => r1 = r2

\* in a step, the row of a key that is upserted carries the upserted close
\* afterwards, every other row is as it was, and every row that is new or
\* changed is an upserted point
C17_StepReplaces ==
    /\ \A r \in store :
          IF \E p \in UpsertedPoints : p[1] = r.ticker /\ p[2] = r.date
          THEN \E r2 \in store' :
                  /\ r2.ticker = r.ticker /\ r2.date = r.date
                  /\ <<r2.ticker, r2.date, r2.close>> \in UpsertedPoints
          ELSE r \in store'
    /\ \A r2 \in store' \ store :
          <<r2.ticker, r2.date, r2.close>> \in UpsertedPoints

C17_UpsertReplaces == [][C17_StepReplaces]_vars

\* C17: every reachable table has at most one row per (ticker, date); an
\* upsert for a key that has a row replaces that row's close with the new
\* value, and the rows of all other keys, of this and of the other ticker,
\* stay as they were.
C17_OneRowPerKeyReplaced ==
    []C17_OneRowPerKey /\ C17_UpsertReplaces

\* C17 witness: in the last pass a stored row was replaced by a row with
\* another close, while another row of the table was left as it was.
C17_Witness ==
    /\ Processed
    /\ \E r \in before : \E r2 \in store :
          /\ r2.ticker = r.ticker /\ r2.date = r.date /\ r2.close # r.close
          /\ \E o \in before \cap store : o.ticker # r.ticker \/ o.date # r.date

\* C18: over every sequence of batches of either mode and any policy, with
\* passes that end in an upstream or a table exception among them, no step
\* deletes a row: each (ticker, date) that has a row before a step has one
\* after it, so the number of rows never falls.
C18_KeysOnlyGrow ==
    [][(\A r \in store : \E r2 \in store' :
            r2.ticker = r.ticker /\ r2.date = r.date)
       /\ Cardinality(store') >= Cardinality(store)]_vars

\* C18 witness: a pass that ended in an upstream exception, after an earlier
\* call of the same pass had added rows to a table that was not empty.
C18_Witness ==
    /\ Processed
    /\ LastOutcome = "failed"
    /\ before # {}
    /\ StoredKeys(before) # StoredKeys(store)
    /\ StoredKeys(before) \subseteq StoredKeys(store)

\* every stored close is a close upstream has published for that ticker and
\* day, under the current or an earlier revision
C19_StoredWasPublished ==
    \A r \in store :
        /\ r.date \in market[r.ticker]
        /\ \E k \in 1..rev : r.close = Close(r.ticker, r.date, k)

\* a step changes the table only through answered upstream calls
C19_StepFollowsFetch ==
    /\ (req.stale_only /\ pc = "asset") => store' = store
    /\ (\A c \in NewCalls : c.raised \/ c.rows = {}) => store' = store
    /\ \A r \in store' \ store : \E c \in NewCalls :
          /\ ~c.raised
          /\ c.ticker = r.ticker
          /\ <<r.date, r.close>> \in c.rows

C19_WritesFollowFetch == [][C19_StepFollowsFetch]_vars

\* C19: rows are created or changed only by an answered upstream call: no
\* step of a stale_only batch, no pass whose upstream calls all come back
\* empty or raise, changes the table, and each row that a step creates or
\* changes is a (date, close) point that an upstream call of that step
\* returned for its ticker; so every stored close is one that upstream
\* published for that ticker and day.
C19_StoreFollowsUpstream ==
    []C19_StoredWasPublished /\ C19_WritesFollowFetch

\* C19 witness: upstream has republished its closes, the table still holds a
\* close of the first revision, and the last pass, whose upstream call
\* raised, left the table as it was.
C19_Witness ==
    /\ Processed
    /\ LastOutcome = "failed"
    /\ rev = 2
    /\ store = before
    /\ \E r \in store : r.close = Close(r.ticker, r.date, 1)
    /\ \E c \in CallsFor(LastTicker) : calls[c].raised

\* the table after caller w's request has run alone from the table the two
\* calls started on
Alone(w) ==
    LET rows == fetch_cached_prices(before, ConcTicker, req.start_date, req.end_date)
        plan == plan_fetch_ranges(rows, req.start_date, req.end_date,
                                  workers[w].force_refresh, workers[w].stale_only)
    IN  fetch_all(before, ConcTicker, plan, Len(plan))

AllDone == \A w \in Callers : workers[w].pc = "done"

\* once both calls have ended the table is the one that one of the two
\* requests leaves when it runs alone, and the series of a call that has
\* ended is the window scan of the table as it was at the call's last read
C20_ConcurrentState ==
    /\ AllDone => \E w \in Callers : store = Alone(w)
    /\ \A w \in Callers : workers[w].pc = "done" =>
          workers[w].series =
              fetch_cached_prices(workers[w].seen, ConcTicker,
                                  req.start_date, req.end_date)
    /\ before \subseteq store

\* no step of either call removes or changes a row that is in the table
C20_NoRowLost == [][store \subseteq store']_vars

\* C20: two calls for the same ticker and window, interleaved between their
\* calls on the table and on upstream, may fetch the same ranges; when both
\* have ended the table equals the table that one of them leaves when run
\* alone, no step has removed a row, and each call's series is the window
\* scan of the table at that call's own re-read.
C20_ConcurrentSameWindow ==
    []C20_ConcurrentState /\ C20_NoRowLost

\* C20 witness: the table had no row of the window; caller 2 made its first
\* read after an upsert of caller 1, so it planned from other rows, yet a
\* range was fetched by both; both calls have ended and the table is the one
\* caller 1 leaves alone.
C20_Witness ==
    /\ AllDone
    /\ fetch_cached_prices(before, ConcTicker, req.start_date, req.end_date) = <<>>
    /\ workers[1].rows = <<>>
    /\ workers[2].rows # <<>>
    /\ workers[1].plan # workers[2].plan
    /\ Range(workers[1].plan) \cap Range(workers[2].plan) # {}
    /\ store = Alone(1)
    /\ store # before

\* C21: when an upstream call raises in the pass of an asset, that call is
\* the last one made for the asset in the batch (no retry, no later range of
\* the fetch list); the points the earlier calls of the pass returned are in
\* the table with their closes, as is every row the table held before the
\* pass; and the asset has no result row and no chart.
C21_RaiseKeepsEarlierRows ==
    (Processed /\ LastOutcome = "failed") =>
        LET cs == CallsFor(LastTicker)
            k  == Max(cs)
        IN  /\ cs # {}
            /\ calls[k].raised
            /\ \A i \in cs \ {k} : ~calls[i].raised
            /\ CalendarMode =>
                  /\ Cardinality(cs) <= Len(fetch_ranges)
                  /\ \A i \in cs :
                        LET n == Cardinality({j \in cs : j <= i})
                        IN  /\ calls[i].start = fetch_ranges[n][1]
                            /\ calls[i].end = fetch_ranges[n][2] + 1
            /\ ~CalendarMode => Cardinality(cs) = 1
            /\ \A i \in cs : \A p \in calls[i].rows :
                  /\ p[1] \in StoredDates(store, LastTicker)
                  /\ StoredClose(store, LastTicker, p[1]) = p[2]
            /\ StoredKeys(before) \subseteq StoredKeys(store)
            /\ LastName \notin ResultNames
            /\ LastName \notin DOMAIN chart_data

\* C21 witness: the second of three planned ranges raised after the answer
\* to the first was upserted; the table has grown, the third range was not
\* asked for and the asset is left out.
C21_Witness ==
    /\ Processed /\ CalendarMode
    /\ LastOutcome = "failed"
    /\ Len(fetch_ranges) = 3
    /\ Cardinality(CallsFor(LastTicker)) = 2
    /\ store # before
    /\ LastName \notin ResultNames

\* a fraction <<numerator, denominator>> equals (last - first) / first * 100
IsChangeOf(frac, first, last) ==
    /\ frac # NoChange
    /\ frac[2] # 0
    /\ frac[1] * first = (last - first) * 100 * frac[2]

\* C22: for every emitted series the change percent is None exactly when
\* the series has fewer than two closes, and otherwise is
\* (last - first) / first * 100 over its first and last close, in the charts
\* and in the payload alike; for the closes [100, 110] it is 10.
C22_ChangePercent ==
    /\ \A name \in DOMAIN chart_data :
          LET closes == chart_data[name]
          IN  /\ name \in DOMAIN chart_changes
              /\ chart_changes[name] = NoChange <=> Len(closes) < 2
              /\ Len(closes) >= 2 =>
                    IsChangeOf(chart_changes[name], closes[1], closes[Len(closes)])
    /\ \A i \in 1..Len(Payload) :
          Payload[i].change_pct = chart_changes[Payload[i].name]
    /\ IsChangeOf(change_pct(<<100, 110>>), 100, 110)
    /\ change_pct(<<100, 110>>)[1] = 10 * change_pct(<<100, 110>>)[2]
    /\ change_pct(<<100>>) = NoChange

\* C22 witness: a batch of both assets has returned; n1 was emitted with one
\* close and no change percent, n2 with two closes and a change percent
\* other than zero.
C22_Witness ==
    /\ pc = "idle"
    /\ outcome = <<"emitted", "emitted">>
    /\ Len(chart_data["n1"]) = 1
    /\ chart_changes["n1"] = NoChange
    /\ Len(chart_data["n2"]) = 2
    /\ chart_changes["n2"] # NoChange
    /\ chart_changes["n2"][1] # 0

\* C23: from an empty table, with upstream holding closes of 10.0, 10.5 and
\* 9.8 on days 2, 3 and 5, a Live calendar-window request over days 1..7
\* whose calls are all answered leaves exactly those three rows in the table
\* and emits the three closes oldest first, with current 9.8 and a change
\* percent of -2.
C23_EndToEnd ==
    (/\ Processed /\ CalendarMode /\ Live
     /\ req.start_date = 1 /\ req.end_date = 7
     /\ before = {}
     /\ LastOutcome # "failed") =>
        /\ Content(store) = {<<LastTicker, 2, 100>>, <<LastTicker, 3, 105>>,
                             <<LastTicker, 5, 98>>}
        /\ Cardinality(store) = 3
        /\ LastOutcome = "emitted"
        /\ chart_data[LastName] = <<100, 105, 98>>
        /\ Len(chart_dates[LastName]) = 3
        /\ results[Len(results)].asset = LastName
        /\ results[Len(results)].current = 98
        /\ IsChangeOf(chart_changes[LastName], 100, 98)
        /\ chart_changes[LastName][1] = -2 * chart_changes[LastName][2]

\* C23 witness: the scenario's request has run on the empty table and the
\* asset is emitted with three closes.
C23_Witness ==
    /\ Processed /\ CalendarMode /\ Live
    /\ req.start_date = 1 /\ req.end_date = 7
    /\ before = {}
    /\ LastOutcome = "emitted"
    /\ Len(chart_data[LastName]) = 3
    /\ Cardinality(store) = 3

\* the position of a ticker's asset in the asset map of the batch
PositionOf(ticker) ==
    CHOOSE i \in 1..Len(req.assets) : ASSETS[req.assets[i]] = ticker

\* the names of the first n assets of the batch that were emitted, in the
\* order of the asset map
RECURSIVE EmittedNames(_)
EmittedNames(n) ==
    IF n = 0 THEN <<>>
    ELSE EmittedNames(n - 1)
         \o (IF outcome[n] = "emitted" THEN <<req.assets[n]>> ELSE <<>>)

\* the upstream calls of a batch come asset by asset in the order of the
\* asset map, and the result rows and the payload entries are the emitted
\* assets in that order
C24_OutputsInMapOrder ==
    /\ \A i \in 1..Len(calls) : \A j \in i..Len(calls) :
          PositionOf(calls[i].ticker) <= PositionOf(calls[j].ticker)
    /\ \A i \in 1..Len(calls) : PositionOf(calls[i].ticker) < idx
    /\ [i \in 1..Len(results) |-> results[i].asset] = EmittedNames(Len(outcome))
    /\ [i \in 1..Len(Payload) |-> Payload[i].name] = EmittedNames(Len(outcome))

\* a step writes rows of the one asset the loop stands at, makes upstream
\* calls for that asset only, and moves the loop on by one asset
C24_StepOneAsset ==
    (store' # store \/ NewCalls # {}) =>
        /\ pc = "asset"
        /\ idx <= Len(req.assets)
        /\ idx' = idx + 1
        /\ \A r \in (store' \ store) \cup (store \ store') :
              r.ticker = ASSETS[req.assets[idx]]
        /\ \A c \in NewCalls : c.ticker = ASSETS[req.assets[idx]]

\* C24: the assets are processed one at a time in the order of the asset
\* map passed in: every table write and upstream call of a step belongs to
\* the asset the loop stands at, the calls of the batch are grouped by asset
\* in map order, and the result rows and the payload list the emitted assets
\* in map order, leaving out only the dropped and the failed ones.
C24_SequentialInMapOrder ==
    []C24_OutputsInMapOrder /\ [][C24_StepOneAsset]_vars

\* C24 witness: a batch passed as n2 then n1 has returned with both
\* emitted; upstream was called for both, and the result rows and the
\* payload list n2 before n1.
C24_Witness ==
    /\ pc = "idle"
    /\ req.assets = <<"n2", "n1">>
    /\ outcome = <<"emitted", "emitted">>
    /\ {calls[i].ticker : i \in 1..Len(calls)} = {"T1", "T2"}
    /\ results[1].asset = "n2" /\ results[2].asset = "n1"
    /\ Payload[1].name = "n2" /\ Payload[2].name = "n1"

\* the days the claim gives for a period tag
ClaimedDays(tag) ==
    CASE tag = "7d"  -> 7
      [] tag = "1mo" -> 30
      [] tag = "3mo" -> 90
      [] tag = "6mo" -> 180
      [] tag = "1y"  -> 365
      [] OTHER       -> 7

\* C25: when start and end are both given the window resolve_date_range
\* returns is [start, end], whatever the period tag; otherwise it is
\* [today - d, today] with d = 7, 30, 90, 180, 365 for the tags 7d, 1mo, 3mo,
\* 6mo, 1y and d = 7 for a missing tag or one that is not in the map.
C25_WindowResolution ==
    trial.state = "returned" =>
        IF trial.start # NoDate /\ trial.end # NoDate
        THEN trial.window = <<trial.start, trial.end>>
        ELSE trial.window = <<Today - ClaimedDays(trial.period), Today>>

\* C25 witness: start and end were both given beside the tag 1y and the
\* window returned is [start, end], not the trailing year.
C25_Witness ==
    /\ trial.state = "returned"
    /\ trial.period = "1y"
    /\ trial.start = 1 /\ trial.end = 2
    /\ trial.window = <<1, 2>>

\* the latest n of a set of days
LatestDays(days, n) == {d \in days : Cardinality({e \in days : e > d}) < n}

\* C26: with a positive trading-day count no window is resolved, whatever
\* period tag, start and end come with it (malformed dates included), and
\* the pass of an asset is determined by the count, the policy, the table and
\* upstream alone: upstream is asked for the trailing month exactly when the
\* policy and the number of stored rows say so, the table takes the latest
\* count points of the answer, and the series is the latest count rows of
\* the table.
C26_TradingDaysIgnoresWindow ==
    req.trading_days # 0 =>
        /\ pc # "raised"
        /\ req.start_date = NoDate /\ req.end_date = NoDate
        /\ Processed =>
              LET n      == req.trading_days
                  held   == StoredDates(before, LastTicker)
                  fetch  == ~req.stale_only
                            /\ (req.force_refresh \/ Cardinality(held) < n)
                  taken  == LatestDays(market[LastTicker], n)
                  series == Ascending(LatestDays(StoredDates(store, LastTicker), n))
              IN  /\ Cardinality(CallsFor(LastTicker)) = (IF fetch THEN 1 ELSE 0)
                  /\ \A c \in CallsFor(LastTicker) : calls[c].start = NoDate
                  /\ LastOutcome = "failed" => (fetch /\ store = before)
                  /\ LastOutcome # "failed" =>
                        Content(store) =
                            IF fetch
                            THEN {x \in Content(before) :
                                     ~(x[1] = LastTicker /\ x[2] \in taken)}
                                 \cup {<<LastTicker, d, Close(LastTicker, d, rev)>> :
                                          d \in taken}
                            ELSE Content(before)
                  /\ LastOutcome = "emitted" =>
                        chart_data[LastName] =
                            [i \in 1..Len(series) |->
                                StoredClose(store, LastTicker, series[i])]
                  /\ LastOutcome = "dropped" => series = <<>>

\* C26 witness: a trading-day request that came with a malformed start and a
\* well-formed end has fetched the trailing month and emitted the asset.
C26_Witness ==
    /\ req.trading_days # 0
    /\ req.explicit
    /\ req.bad_dates = {"start"}
    /\ Processed
    /\ LastOutcome = "emitted"
    /\ CallsFor(LastTicker) # {}

\* C27: no entry of a fetch list starts after it ends and no upstream call is
\* made for such a range (a call asks for [range_start, range_end + 1)); a
\* calendar-window batch whose start is after its end makes no upstream call
\* under any policy and emits no asset.
C27_NoCallForInvertedRange ==
    /\ \A i \in 1..Len(fetch_ranges) : fetch_ranges[i][1] <= fetch_ranges[i][2]
    /\ \A i \in 1..Len(calls) :
          calls[i].start # NoDate => calls[i].start < calls[i].end
    /\ (CalendarMode /\ req # NoRequest /\ req.start_date > req.end_date) =>
          /\ calls = <<>>
          /\ fetch_ranges = <<>>
          /\ results = <<>>
          /\ chart_data = EmptyMap
          /\ \A i \in 1..Len(outcome) : outcome[i] = "dropped"

\* C27 witness: a force_refresh batch over a window that starts after it
\* ends has returned, with rows of the ticker in the table: no call was made
\* and the asset was dropped.
C27_Witness ==
    /\ pc = "idle"
    /\ CalendarMode /\ ForceRefresh
    /\ req.start_date > req.end_date
    /\ StoredDates(store, "T1") # {}
    /\ outcome = <<"dropped">>
    /\ calls = <<>>

\* the days of a name's emitted series: the days the read for the request
\* gives for its ticker, oldest first
SeriesDays(name) == Ascending(ReadDays(store, ASSETS[name]))

\* C28: every emitted series has at least one point, as many dates as
\* closes, and runs over stored days of its ticker strictly from the oldest
\* to the newest, each with its stored close and its '%m-%d' label; in
\* calendar-window mode all those days lie in the resolved window; the
\* current value of the asset's result row and of its payload entry is the
\* last close of the series, and the payload entry carries the same dates and
\* closes.
C28_SeriesShape ==
    /\ DOMAIN chart_data = DOMAIN chart_dates
    /\ ResultNames = DOMAIN chart_data
    /\ PayloadNames = DOMAIN chart_data
    /\ \A name \in DOMAIN chart_data :
          LET closes == chart_data[name]
              days   == SeriesDays(name)
          IN  /\ Len(closes) >= 1
              /\ Len(chart_dates[name]) = Len(closes)
              /\ Len(days) = Len(closes)
              /\ \A i \in 1..Len(days) :
                    /\ days[i] \in StoredDates(store, ASSETS[name])
                    /\ closes[i] = StoredClose(store, ASSETS[name], days[i])
                    /\ chart_dates[name][i] = format_md(days[i])
                    /\ CalendarMode => InWindow(days[i])
                    /\ \A j \in 1..Len(days) : i < j => days[i] < days[j]
    /\ \A i \in 1..Len(results) :
          LET closes == chart_data[results[i].asset]
          IN  results[i].current = closes[Len(closes)]
    /\ \A i \in 1..Len(Payload) :
          LET closes == chart_data[Payload[i].name]
          IN  /\ Payload[i].close = closes
              /\ Payload[i].dates = chart_dates[Payload[i].name]
              /\ Payload[i].current = closes[Len(closes)]

\* C28 witness: a trading-day batch of both assets has returned with two
\* closes each, the older first, while the table holds an older row of n2
\* that is not part of its series.
C28_Witness ==
    /\ pc = "idle"
    /\ ~CalendarMode
    /\ outcome = <<"emitted", "emitted">>
    /\ Len(chart_data["n1"]) = 2
    /\ Len(chart_data["n2"]) = 2
    /\ chart_data["n2"][1] < chart_data["n2"][2]
    /\ Cardinality(StoredDates(store, "T2")) > 2

\* the rows of the last asset's ticker that lay in the window when the asset
\* was entered, and the tables that agree with that table on those rows:
\* the same rows of the window, with any rows of the ticker on days outside
\* the window and with or without a row of each other ticker
RowsInWindow == {r \in before : r.ticker = LastTicker /\ InWindow(r.date)}
RowsElsewhere ==
    {[ticker |-> td[1], date |-> td[2], close |-> td[2], updated_at |-> 0] :
        td \in {x \in Tickers \X Dates :
                    IF x[1] = LastTicker THEN ~InWindow(x[2]) ELSE x[2] = Today}}
AgreeingTables == {RowsInWindow \cup extra : extra \in SUBSET RowsElsewhere}

\* the fetch list as a function of the stored days of the window alone
WindowPlan(days) ==
    LET full   == << <<req.start_date, req.end_date>> >>
        recent == <<RecentWindow>>
    IN  IF StaleOnly \/ ~WindowOk THEN <<>>
        ELSE (IF ForceRefresh THEN full ELSE recent)
             \o (IF days = {} THEN full
                 ELSE (IF Min(days) > req.start_date
                       THEN << <<req.start_date, Min(days) - 1>> >> ELSE <<>>)
                      \o (IF Max(days) < req.end_date
                          THEN << <<Max(days) + 1, req.end_date>> >> ELSE <<>>))

\* C29: in calendar-window mode the fetch list of an asset is a function of
\* the ticker's stored rows of [start, end] only: every table that agrees
\* with the table on those rows gives the same list, and the list is the one
\* computed from the stored days of the window; when no stored day of the
\* ticker lies in the window the list is that of an empty cache, under Live
\* the most-recent-day sub-window followed by the whole [start, end].
C29_PlanFromWindowRows ==
    (CalendarMode /\ Processed) =>
        /\ fetch_ranges = WindowPlan(CachedInWindow)
        /\ \A other \in AgreeingTables :
              plan_fetch_ranges(
                  fetch_cached_prices(other, LastTicker,
                                      req.start_date, req.end_date),
                  req.start_date, req.end_date,
                  req.force_refresh, req.stale_only) = fetch_ranges
        /\ CachedInWindow = {} =>
              fetch_ranges = plan_fetch_ranges(<<>>, req.start_date, req.end_date,
                                               req.force_refresh, req.stale_only)
        /\ (CachedInWindow = {} /\ Live /\ WindowOk) =>
              fetch_ranges = <<RecentWindow, <<req.start_date, req.end_date>> >>

\* C29 witness: under Live the table held rows of the ticker before and
\* after the window and none inside it, and the recent sub-window and the
\* whole window were planned.
C29_Witness ==
    /\ CalendarMode /\ Live /\ Processed /\ WindowOk
    /\ CachedInWindow = {}
    /\ \E d \in StoredDates(before, LastTicker) : d < req.start_date
    /\ \E d \in StoredDates(before, LastTicker) : d > req.end_date
    /\ fetch_ranges = <<RecentWindow, <<req.start_date, req.end_date>> >>

\* ---- SpecRepeat: a calendar-window request for n1 without stale_only is
\* run, its response is kept, and the same request is run again.  The table starts
\* with rows of T1 written from another revision of upstream, among them
\* rows of days on which upstream has no close; upstream does not change.
RepeatTables ==
    {{[ticker |-> "T1", date |-> d, close |-> Close("T1", d, MaxRev),
       updated_at |-> 0] : d \in days} : days \in SUBSET Dates}

InitRepeat ==
    /\ market = [t \in Tickers |-> IF t = "T1" THEN Weekdays ELSE Dates]
    /\ store \in RepeatTables
    /\ rev = 1
    /\ clock = 0
    /\ trial = <<>>
    /\ workers = <<>>
    /\ InitCall

\* fetch_asset_history has returned for the first time: the caller keeps
\* what it returned and what the table holds, and a second passes
KeepResponse ==
    /\ pc = "idle"
    /\ req # NoRequest
    /\ trial = <<>>
    /\ trial' = [results |-> results, chart_data |-> chart_data,
                 chart_dates |-> chart_dates, chart_changes |-> chart_changes,
                 outcome |-> outcome, content |-> Content(store), at |-> clock]
    /\ clock' = clock + 1
    /\ UNCHANGED <<store, market, rev, pc, req, idx, cached_rows, fetch_ranges,
                   results, chart_data, chart_dates, chart_changes, calls,
                   before, outcome, workers, http, dash>>

\* fetch_asset_history is called again with the arguments of the kept call
RepeatRequest ==
    /\ pc = "idle"
    /\ trial # <<>>
    /\ DirectCall(req.assets, 0, None, req.start_date, req.end_date,
                  req.force_refresh, req.stale_only)

NextRepeat ==
    \/ /\ trial = <<>>
       /\ \E start \in Dates, end \in Dates, force_refresh \in BOOLEAN :
             DirectCall(<<"n1">>, 0, None, start, end, force_refresh, FALSE)
    \/ ProcessAssetWindow
    \/ ReturnResults
    \/ KeepResponse
    \/ RepeatRequest

SpecRepeat == InitRepeat /\ [][NextRepeat]_vars

\* C30: when a calendar-window request under Live or force_refresh has
\* returned without an upstream failure and the same request, run again
\* against the same upstream, has returned without a failure too, the second
\* run emits what the first emitted (result rows, closes, dates, change
\* percents), and the (ticker, date, close) content of the table after the
\* second run is its content after the first.
C30_RepeatRunIdempotent ==
    (/\ pc = "idle"
     /\ trial # <<>>
     /\ \A i \in 1..Len(outcome) : outcome[i] # "failed"
     /\ \A i \in 1..Len(trial.outcome) : trial.outcome[i] # "failed")
        => /\ results = trial.results
           /\ chart_data = trial.chart_data
           /\ chart_dates = trial.chart_dates
           /\ chart_changes = trial.chart_changes
           /\ outcome = trial.outcome
           /\ Content(store) = trial.content

\* C30 witness: the second Live run has returned; it asked upstream again
\* and wrote rows anew (their updated_at is later than the first return),
\* the table still holds a row the first run did not touch, and the first
\* run had replaced a close of the other revision.
C30_Witness ==
    /\ pc = "idle"
    /\ trial # <<>>
    /\ Live /\ CalendarMode
    /\ outcome = <<"emitted">>
    /\ trial.outcome = outcome
    /\ calls # <<>>
    /\ \E r \in store : r.updated_at > trial.at
    /\ \E r \in store : r.ticker = "T1" /\ r.close = Close("T1", r.date, MaxRev)
    /\ \E r \in store : r.ticker = "T1" /\ r.close = Close("T1", r.date, rev)
                          /\ r.updated_at <= trial.at
    /\ chart_data = trial.chart_data
    /\ Content(store) = trial.content

\* the rows of the last asset's ticker that, when the asset was entered, lay
\* between the earliest and the latest stored day of the window and before
\* the day before end
InteriorRows ==
    {r \in before :
        /\ r.ticker = LastTicker
        /\ CachedInWindow # {}
        /\ r.date >= Min(CachedInWindow)
        /\ r.date <= Max(CachedInWindow)
        /\ r.date < req.end_date - 1}

\* C31: under Live in calendar-window mode, a row of the asset's ticker whose
\* day lies between the earliest and the latest stored day of the window and
\* before end - 1 is in the table after the asset's pass exactly as before
\* (same close, same updated_at), and no upstream call of the pass covers
\* its day, whatever upstream would now answer for that day.
C31_InteriorRowsUntouched ==
    (CalendarMode /\ Live /\ Processed) =>
        \A r \in InteriorRows :
            /\ r \in store
            /\ \A i \in 1..Len(calls) :
                  calls[i].ticker = LastTicker =>
                      ~(calls[i].start <= r.date /\ r.date < calls[i].end)

\* C31 witness: upstream answered the calls of a Live pass after it had
\* republished its closes, and a row between the stored extent of the
\* window still carries the close of the earlier revision although upstream
\* has a close for that day.
C31_Witness ==
    /\ CalendarMode /\ Live /\ Processed
    /\ LastOutcome = "emitted"
    /\ \E i \in 1..Len(calls) : calls[i].rows # {}
    /\ \E r \in InteriorRows :
          /\ r \in store
          /\ r.date \in market[LastTicker]
          /\ r.close # Close(LastTicker, r.date, rev)
    /\ \E r \in store : r.ticker = LastTicker
                          /\ r.close = Close(LastTicker, r.date, rev)

\* C32: in calendar-window mode the upstream calls of an asset are made for
\* its planned sub-windows in order, the call for [s, e] with start s and
\* exclusive end e + 1; an answered call returns upstream's closes of the
\* days s..e, the close of day e among them when upstream has one, and no
\* close of a later day, and those closes are stored.
C32_HalfOpenFetch ==
    (CalendarMode /\ Processed /\ Len(req.assets) = 1) =>
        /\ Len(calls) <= Len(fetch_ranges)
        /\ LastOutcome # "failed" => Len(calls) = Len(fetch_ranges)
        /\ \A i \in 1..Len(calls) :
              LET s == fetch_ranges[i][1]
                  e == fetch_ranges[i][2]
              IN  /\ calls[i].ticker = LastTicker
                  /\ calls[i].start = s
                  /\ calls[i].end = e + 1
                  /\ ~calls[i].raised =>
                        /\ calls[i].rows =
                              {<<d, Close(LastTicker, d, rev)>> :
                                  d \in {x \in market[LastTicker] : s <= x /\ x <= e}}
                        /\ \A p \in calls[i].rows :
                              /\ p[1] \in StoredDates(store, LastTicker)
                              /\ StoredClose(store, LastTicker, p[1]) = p[2]

\* C32 witness: upstream has closes on the last day e of a planned
\* sub-window and on the day after it; the call answered with the close of e
\* and without that of e + 1, and the table holds day e and not day e + 1.
C32_Witness ==
    /\ CalendarMode /\ Processed
    /\ LastOutcome = "emitted"
    /\ \E i \in 1..Len(calls) :
          LET e == fetch_ranges[i][2]
          IN  /\ e \in market[LastTicker]
              /\ e + 1 \in market[LastTicker]
              /\ \E p \in calls[i].rows : p[1] = e
              /\ \A p \in calls[i].rows : p[1] # e + 1
              /\ e \in StoredDates(store, LastTicker)
              /\ e + 1 \notin StoredDates(store, LastTicker)

\* ---- SpecApi: /api/prices requests for n1, served one at a time over the
\* table the earlier requests left.  A query argument is a string, None when
\* it is absent.
StaleArgs == {None, "true", "1"}
RefreshArgs == {None, "true", "1"}
TradingArgs == {None, "0", "2", "x"}

\* int(trading_days): ValueError for what is not a number
int_raises(raw) == raw \notin {"0", "1", "2"}
int_of(raw) ==
    CASE raw = "0" -> 0
      [] raw = "1" -> 1
      [] raw = "2" -> 2

\* use_start_end, use_trading_days and trading_days_value of api_prices
use_start_end(start, end) == start # NoDate /\ end # NoDate
use_trading_days(raw) == raw # None /\ ~int_raises(raw)
trading_days_value(raw) == IF int_of(raw) < 1 THEN 1 ELSE int_of(raw)

\* mutant: refresh is looked at before stale
api_policy_refresh_first(stale, refresh) ==
    IF refresh = "true"
    THEN [force_refresh |-> TRUE, stale_only |-> FALSE]
    ELSE [force_refresh |-> FALSE, stale_only |-> stale = "true"]

\* the force_refresh and stale_only that api_prices passes on: the stale
\* branch is taken first, with force_refresh=False and stale_only=True
api_policy(stale, refresh) ==
    IF stale = "true"
    THEN [force_refresh |-> FALSE, stale_only |-> TRUE]
    ELSE [force_refresh |-> refresh = "true", stale_only |-> FALSE]

\* api_prices up to its call of fetch_asset_history
ApiRequest(period, start, end, refresh, trading_days, stale) ==
    LET use_td == use_trading_days(trading_days)
        use_se == use_start_end(start, end)
        policy == api_policy(stale, refresh)
    IN  /\ http.phase # "called"
        /\ StartRequest(<<"n1">>,
                        IF use_td THEN trading_days_value(trading_days) ELSE 0,
                        IF use_se \/ use_td THEN None
                        ELSE IF period = None THEN "7d" ELSE period,
                        IF use_se THEN start ELSE NoDate,
                        IF use_se THEN end ELSE NoDate,
                        policy.force_refresh, policy.stale_only)
        /\ http' = [phase |-> "called", stale |-> stale, refresh |-> refresh,
                    table |-> store, assets |-> <<>>,
                    meta |-> [stale |-> FALSE, source |-> None]]

\* fetch_asset_history has returned: build_assets_payload and jsonify, in
\* the stale branch or after it
ApiRespond ==
    /\ http.phase = "called"
    /\ pc = "idle"
    /\ http' = [http EXCEPT
                  !.phase = "answered",
                  !.assets = build_assets_payload(req.assets, chart_data,
                                                  chart_dates, chart_changes),
                  !.meta = IF http.stale = "true"
                           THEN [stale |-> TRUE, source |-> "cache"]
                           ELSE [stale |-> FALSE, source |-> "live"]]
    /\ UNCHANGED <<store, market, rev, pc, req, idx, cached_rows, fetch_ranges,
                   results, chart_data, chart_dates, chart_changes, calls,
                   before, outcome, clock, trial, workers, dash>>

\* an exception has left fetch_asset_history: the request fails without an
\* answer of api_prices
ApiFails ==
    /\ http.phase = "called"
    /\ pc = "raised"
    /\ http' = [http EXCEPT !.phase = "failed"]
    /\ UNCHANGED <<store, market, rev, pc, req, idx, cached_rows, fetch_ranges,
                   results, chart_data, chart_dates, chart_changes, calls,
                   before, outcome, clock, trial, workers, dash>>

NextApi ==
    \/ \E period \in {None, "1mo"}, start \in RawDateArgs, end \in RawDateArgs,
          refresh \in RefreshArgs, trading_days \in TradingArgs,
          stale \in StaleArgs :
          ApiRequest(period, start, end, refresh, trading_days, stale)
    \/ ProcessAssetWindow
    \/ ProcessAssetTradingDays
    \/ ReturnResults
    \/ ApiRespond
    \/ ApiFails

SpecApi == InitBatch /\ [][NextApi]_vars

\* C33: a request with stale=true is served under StaleOnly whether or not
\* refresh=true comes with it: fetch_asset_history runs with stale_only and
\* without force_refresh, no upstream call is made, the table stays as it was
\* when the request came, and the answer, when there is one, carries
\* meta.stale = true and meta.source = cache.  A request without stale=true
\* runs under ForceRefresh exactly when refresh=true and under Live
\* otherwise, and its answer carries meta.stale = false and meta.source =
\* live.
C33_StaleBeatsRefresh ==
    http.phase # "none" =>
        /\ http.stale = "true" =>
              /\ req.stale_only /\ ~req.force_refresh
              /\ calls = <<>>
              /\ store = http.table
              /\ http.phase = "answered" =>
                    http.meta = [stale |-> TRUE, source |-> "cache"]
        /\ http.stale # "true" =>
              /\ ~req.stale_only
              /\ req.force_refresh <=> http.refresh = "true"
              /\ http.phase = "answered" =>
                    http.meta = [stale |-> FALSE, source |-> "live"]

\* C33 witness: a request with stale=true and refresh=true has been
\* answered from a table that holds rows, with assets in the answer.
C33_Witness ==
    /\ http.phase = "answered"
    /\ http.stale = "true"
    /\ http.refresh = "true"
    /\ http.assets # <<>>
    /\ store # {}
    /\ calls = <<>>
    /\ http.meta.source = "cache"

\* ---- SpecDash: the dashboard page.  The user applies filters (with or
\* without a ticker selected) or clicks the refresh button, up to MaxClicks
\* times, without waiting for earlier answers; every /api/prices request in
\* flight is answered in any order with assets, with no assets, or not at
\* all (a failed or timed-out fetch).  dash.sent lists the requests in the
\* order they were sent; a payload is named by the position of its request.
Answers == {"assets", "empty", "error"}

\* renderSkeleton
Skeleton == [kind |-> "skeleton", of |-> 0]
\* renderCharts(payload.assets) for the payload of request n
Charts(n) == [kind |-> "charts", of |-> n]

\* isStale && !isAutoLive
needs_follow_up(params) == params.stale /\ ~params.auto_live

\* mutant: the stale flag is left in the parameters of the follow-up
next_params_keeping_stale(params) == [params EXCEPT !.auto_live = TRUE]

\* nextParams = { ...params, auto_live: "true" }; delete nextParams.stale
next_params(params) == [params EXCEPT !.auto_live = TRUE, !.stale = FALSE]

\* loadData(params) up to its await: the skeleton is drawn and the request
\* is sent
loadData(page, params) ==
    [page EXCEPT !.sent = Append(@, [params EXCEPT !.state = "inflight"]),
                 !.cards = Skeleton]

\* loadData(params) after its await, for request n answered with answer
loadDataResumes(page, n, answer) ==
    LET params == page.sent[n]
        done   == [page EXCEPT !.sent[n].state = answer]
    IN  CASE answer = "assets" ->
                [done EXCEPT !.lastPayload = n, !.cards = Charts(n)]
          [] answer = "empty" ->
                IF needs_follow_up(params)
                THEN loadData(done, next_params(params))
                ELSE [done EXCEPT !.cards = NoCards]
          [] answer = "error" ->
                [done EXCEPT !.cards = NoCards]

DashFrame == <<store, market, rev, pc, req, idx, cached_rows, fetch_ranges,
               results, chart_data, chart_dates, chart_changes, calls, before,
               outcome, clock, trial, workers, http>>

\* applyFilters: nothing is sent when no ticker is selected
applyFilters(any_selected) ==
    /\ dash.clicks < MaxClicks
    /\ LET clicked == [dash EXCEPT !.clicks = @ + 1]
       IN  dash' = IF ~any_selected
                   THEN [clicked EXCEPT !.cards = NoCards]
                   ELSE loadData(clicked,
                            [click |-> clicked.clicks, stale |-> TRUE,
                             refresh |-> FALSE, auto_live |-> FALSE,
                             state |-> "inflight"])
    /\ UNCHANGED DashFrame

\* the click handler of refreshBtn
refreshClick ==
    /\ dash.clicks < MaxClicks
    /\ LET clicked == [dash EXCEPT !.clicks = @ + 1]
       IN  dash' = loadData(clicked,
                       [click |-> clicked.clicks, stale |-> FALSE,
                        refresh |-> TRUE, auto_live |-> FALSE,
                        state |-> "inflight"])
    /\ UNCHANGED DashFrame

\* the fetch of request n settles and its loadData runs to its end
Response(n, answer) ==
    /\ n \in 1..Len(dash.sent)
    /\ dash.sent[n].state = "inflight"
    /\ dash' = loadDataResumes(dash, n, answer)
    /\ UNCHANGED DashFrame

NextDash ==
    \/ \E any_selected \in BOOLEAN : applyFilters(any_selected)
    \/ refreshClick
    \/ \E n \in 1..Len(dash.sent), answer \in Answers : Response(n, answer)

SpecDash == InitBatch /\ [][NextDash]_vars

\* the requests sent for the k-th user action, and the follow-ups among them
RequestsOf(k) == {n \in 1..Len(dash.sent) : dash.sent[n].click = k}
FollowUpsOf(k) == {n \in RequestsOf(k) : dash.sent[n].auto_live}

C35_LastRequestWins ==
    LET last == Len(dash.sent)
    IN  (/\ last > 0
         /\ \A n \in 1..last : dash.sent[n].state # "inflight"
         /\ dash.sent[last].click = dash.clicks)
            => IF dash.sent[last].state = "assets"
               THEN dash.cards = Charts(last) /\ dash.lastPayload = last
               ELSE dash.cards = NoCards

====
